---- MODULE Spec2Model ----
(***************************************************************************)
(* Model of scripts/validate_audio.py: the WAV decoder with backend        *)
(* fallback (load_audio), the per-file validation policy (validate_one)    *)
(* and the command-line driver (main) with the comparison reporter.        *)
(*                                                                         *)
(* Floating-point samples are fixed-point integers in units of 1/1000      *)
(* (0.5 is 500), or one of the three non-finite values NaN, PosInf,        *)
(* NegInf.  Statistics are exact rationals over these integers: a mean is  *)
(* a pair numerator/denominator, a standard deviation is compared through  *)
(* its square.  Durations are in samples and Hz, compared in 1/1000 s.     *)
(***************************************************************************)
EXTENDS Integers, Sequences, FiniteSets, TLC

\* ------------------------------------------------------------------ bounds
MaxSamples == 3     \* longest data chunk (in samples) of an enumerated file
MaxPaths == 3       \* longest list of paths given to main
MaxStereoFrames == 2 \* longest 2-channel file (in frames) of the stereo runs
MaxCompareSamples == 2 \* longest file (in samples) of the comparison runs
MaxTasks == 2        \* most validate_one calls in flight at once
MaxFlatnessPad == 1  \* how far the lengths of the direct flatness calls go around 256 per channel
MaxStatsSamples == 3 \* longest sequence given to a direct _stats or _channel_stats call
MaxDecodeSamples == 2 \* longest data chunk (in stored samples) of a direct load_audio call
MaxStreamItems == 2 \* most items the underlying training stream yields

\* ------------------------------------------------------ program constants
DefaultMinStd == 1              \* min_std = 0.001
DefaultMinPeak == 10            \* min_peak = 0.01
DefaultDurationTolerance == 500 \* duration_tolerance = 0.5
PcmDivisor == 32768             \* s / 32768.0
MaxFFTLen == 65536              \* arr[: min(len(arr), 65536)]
SpectrumEps == 1                \* 1e-10, the unit of the magnitudes of the spectrum
MinFFTLen == 256                \* len(arr) < 256
StereoCheckMin == 4             \* len(samples) >= 4
StereoCheckMax == 10000         \* min(len(left), len(right), 10000)

\* The non-finite floats, encoded outside the range of the finite samples
NaN == 2000000
PosInf == 2000001
NegInf == -2000001

\* An optional value is None or Some(x)
None == <<>>
Some(x) == <<x>>

\* exit_code before main has returned
NotReturned == -1

\* ----------------------------------------------------------- arithmetic
Abs(x) == IF x < 0 THEN -x ELSE x

Min(a, b) == IF a < b THEN a ELSE b

Max(a, b) == IF a > b THEN a ELSE b

RECURSIVE SeqSum(_)
SeqSum(s) ==
    IF s = <<>> THEN 0
    ELSE IF Len(s) = 1 THEN s[1]
    ELSE LET h == Len(s) \div 2
         IN  SeqSum(SubSeq(s, 1, h)) + SeqSum(SubSeq(s, h + 1, Len(s)))

RECURSIVE SeqMax(_)
SeqMax(s) ==
    IF Len(s) = 1 THEN s[1]
    ELSE LET h == Len(s) \div 2
         IN  Max(SeqMax(SubSeq(s, 1, h)), SeqMax(SubSeq(s, h + 1, Len(s))))

\* samples[start::step] with a 0-based start, as Python slices it
Stride(s, start, step) ==
    LET cnt == IF Len(s) > start THEN (Len(s) - start + step - 1) \div step ELSE 0
    IN  [k \in 1..cnt |-> s[start + 1 + (k - 1) * step]]

RECURSIVE SeqsUpTo(_, _)
SeqsUpTo(S, n) ==
    IF n = 0 THEN {<<>>}
    ELSE LET shorter == SeqsUpTo(S, n - 1)
         IN  shorter \cup {Append(s, x) : s \in {t \in shorter : Len(t) = n - 1}, x \in S}

\* ------------------------------------------------------------- the files
\* A file on disk: whether the path exists, its size in bytes being zero,
\* the WAV sample format of its header ("corrupt": no readable header),
\* the header's sample rate and channel count and the samples of its data
\* chunk as stored (16-bit integers for pcm16, floats for float32, 32-bit
\* integers for pcm32, unsigned bytes for pcm8).
File(exists, empty, format, rate, channels, data) ==
    [exists |-> exists, empty |-> empty, format |-> format,
     rate |-> rate, channels |-> channels, data |-> data]

MissingFile == File(FALSE, TRUE, "corrupt", 0, 0, <<>>)

EmptyFile == File(TRUE, TRUE, "corrupt", 0, 0, <<>>)

CorruptFile == File(TRUE, FALSE, "corrupt", 0, 0, <<>>)

WholeFrames(f) == f.channels > 0 /\ Len(f.data) % f.channels = 0

\* ------------------------------------------------------------ load_audio
Decoded(samples, rate, channels, tried) ==
    [ok |-> TRUE, samples |-> samples, rate |-> rate, channels |-> channels,
     err |-> "", tried |-> tried]

DecodeError(err, tried) ==
    [ok |-> FALSE, samples |-> <<>>, rate |-> 0, channels |-> 0,
     err |-> err, tried |-> tried]

\* variant: the divisor is 32767
NormalizeInt_32767(s) == (s * 1000) \div (PcmDivisor - 1)

\* s / 32768.0 in fixed point (floor to 1/1000)
NormalizeInt(s) == (s * 1000) \div PcmDivisor

\* a 16-bit word read as a signed integer ("<h")
Signed16(u) == IF u >= PcmDivisor THEN u - 2 * PcmDivisor ELSE u

\* the little-endian 16-bit words of the data chunk of a file of 32-bit
\* samples: the low and the high half of every sample
Words32(data) ==
    [k \in 1..(2 * Len(data)) |->
        IF k % 2 = 1
        THEN Signed16(data[(k + 1) \div 2] % (2 * PcmDivisor))
        ELSE data[k \div 2] \div (2 * PcmDivisor)]

\* the little-endian 16-bit words of the data chunk of a file of 8-bit
\* samples: two consecutive bytes each
Words8(data) ==
    [k \in 1..(Len(data) \div 2) |-> Signed16(data[2 * k - 1] + 256 * data[2 * k])]

\* sf.read(str(path), dtype="float32"): integer PCM is scaled to [-1, 1),
\* float PCM is returned as stored; data.ravel() keeps the interleaving.
SoundfileRead(f, tried) ==
    CASE f.format = "pcm16" ->
           Decoded([k \in DOMAIN f.data |-> NormalizeInt(f.data[k])],
                   f.rate, f.channels, tried)
      [] f.format = "float32" -> Decoded(f.data, f.rate, f.channels, tried)
      [] f.format = "pcm32" ->
           \* v / 2^31, from the high half of v
           Decoded([k \in DOMAIN f.data |->
                       NormalizeInt(f.data[k] \div (2 * PcmDivisor))],
                   f.rate, f.channels, tried)
      [] f.format = "pcm8" ->
           \* (b - 128) / 128
           Decoded([k \in DOMAIN f.data |-> ((f.data[k] - 128) * 1000) \div 128],
                   f.rate, f.channels, tried)
      [] OTHER -> DecodeError("Error opening file: Format not recognised.", tried)

\* wav.read(str(path)) followed by the dtype.kind test of lines 51-54
ScipyRead(f, tried) ==
    CASE f.format = "pcm16" ->
           Decoded([k \in DOMAIN f.data |-> NormalizeInt(f.data[k])],
                   f.rate, f.channels, tried)
      [] f.format = "float32" -> Decoded(f.data, f.rate, f.channels, tried)
      [] f.format = "pcm32" ->
           \* int32 has dtype.kind "i": v / 32768.0
           Decoded([k \in DOMAIN f.data |->
                       (f.data[k] \div PcmDivisor) * 1000
                       + NormalizeInt(f.data[k] % PcmDivisor)],
                   f.rate, f.channels, tried)
      [] f.format = "pcm8" ->
           \* uint8 has dtype.kind "u": b / 32768.0
           Decoded([k \in DOMAIN f.data |-> NormalizeInt(f.data[k])],
                   f.rate, f.channels, tried)
      [] OTHER -> DecodeError("File format not understood.", tried)

\* wave.open accepts integer PCM only; every 16-bit word read from the
\* data chunk is one sample, whole frame or not, whatever the sample width
\* of the header is; struct.unpack fails on an odd number of bytes.
LoadWavStdlib(f, tried) ==
    CASE f.format = "pcm16" ->
           Decoded([k \in DOMAIN f.data |-> NormalizeInt(f.data[k])],
                   f.rate, f.channels, tried)
      [] f.format = "pcm32" ->
           Decoded([k \in 1..(2 * Len(f.data)) |-> NormalizeInt(Words32(f.data)[k])],
                   f.rate, f.channels, tried)
      [] f.format = "pcm8" ->
           IF Len(f.data) % 2 = 1
           THEN DecodeError("unpack requires a buffer", tried)
           ELSE Decoded([k \in 1..(Len(f.data) \div 2) |-> NormalizeInt(Words8(f.data)[k])],
                        f.rate, f.channels, tried)
      [] f.format = "float32" -> DecodeError("unknown format: 3", tried)
      [] OTHER -> DecodeError("", tried)

\* variant: scipy is tried before soundfile
LoadAudio_ScipyFirst(f, e) ==
    IF e.scipy
    THEN ScipyRead(f, <<"scipy">>)
    ELSE IF e.soundfile
         THEN SoundfileRead(f, <<"scipy", "soundfile">>)
         ELSE LoadWavStdlib(f, <<"scipy", "soundfile", "stdlib">>)

\* Only ImportError moves on to the next backend; any other exception of an
\* installed backend leaves load_audio.
LoadAudio(f, e) ==
    IF e.soundfile
    THEN SoundfileRead(f, <<"soundfile">>)
    ELSE IF e.scipy
         THEN ScipyRead(f, <<"soundfile", "scipy">>)
         ELSE LoadWavStdlib(f, <<"soundfile", "scipy", "stdlib">>)

\* variant: no separate case for the empty sequence
Stats_NoEmptyCase(samples) ==
    LET n == Len(samples)
        total == SeqSum(samples)
        devsq == [k \in 1..n |-> (n * samples[k] - total) * (n * samples[k] - total)]
    IN  [mean_num |-> total, mean_den |-> n,
         var_num |-> Max(0, SeqSum(devsq)), var_den |-> n * n * n]

\* ---------------------------------------------------------------- _stats
\* (mean, std) as exact rationals: mean = mean_num / mean_den and
\* std^2 = var_num / var_den, with var_num = sum((n*x - sum(x))^2) and
\* var_den = n^3, which is sum((x - mean)^2) / n.
Stats(samples) ==
    LET n == Len(samples)
        total == SeqSum(samples)
        devsq == [k \in 1..n |-> (n * samples[k] - total) * (n * samples[k] - total)]
    IN  IF n = 0
        THEN [mean_num |-> 0, mean_den |-> 1, var_num |-> 0, var_den |-> 1]
        ELSE [mean_num |-> total, mean_den |-> n,
              var_num |-> Max(0, SeqSum(devsq)), var_den |-> n * n * n]

\* variant: std < t
StdLeq_Strict(st, t) == st.var_num < t * t * st.var_den

\* std <= t and std > t for a threshold t in 1/1000
StdLeq(st, t) == st.var_num <= t * t * st.var_den

\* max(abs(x) for x in samples)
Peak(samples) == SeqMax([k \in DOMAIN samples |-> Abs(samples[k])])

\* variant: channel c starts at position c + 1
ChannelStats_FromOne(samples, channels) ==
    IF channels <= 1
    THEN <<Stats(samples)>>
    ELSE [c \in 1..channels |-> Stats(Stride(samples, c, channels))]

\* -------------------------------------------------------- _channel_stats
ChannelStats(samples, channels) ==
    IF channels <= 1
    THEN <<Stats(samples)>>
    ELSE [c \in 1..channels |-> Stats(Stride(samples, c - 1, channels))]

\* ---------------------------------------------------- _spectral_flatness
\* The set of values the call can return, in 1/1000: -1 when numpy is
\* missing or when fewer than 256 samples remain after the channel
\* reduction; otherwise the ratio of the geometric to the arithmetic mean of
\* the magnitudes of the spectrum after the DC bin, each raised by 1e-10.
\* The transform of a constant window is zero in every bin after the DC
\* bin, so each of its raised magnitudes is 1e-10 and the two means are
\* equal; for any other window the model leaves the ratio open within
\* FlatnessRange.
FlatnessRange == 0..1000

IsConstant(s) == \A k \in DOMAIN s : s[k] = s[1]

\* variant: the channels of a frame are added up (a downmix)
SpectralFlatness_Downmix(samples, channels, e) ==
    LET arr == IF channels > 1
               THEN [k \in 1..(Len(samples) \div channels) |->
                       SeqSum(SubSeq(samples, (k - 1) * channels + 1, k * channels))]
               ELSE samples
        window == SubSeq(arr, 1, Min(Len(arr), MaxFFTLen))
        level == 0 + SpectrumEps
    IN  IF ~e.numpy THEN {-1}
        ELSE IF Len(arr) < MinFFTLen THEN {-1}
        ELSE IF IsConstant(window)
             THEN IF level < SpectrumEps THEN {0} ELSE {1000}
        ELSE FlatnessRange

SpectralFlatness(samples, channels, e) ==
    LET arr == IF channels > 1 THEN Stride(samples, 0, channels) ELSE samples
        window == SubSeq(arr, 1, Min(Len(arr), MaxFFTLen))
        \* fft = fft + 1e-10 on a spectrum of zeros; both means are this level
        level == 0 + SpectrumEps
    IN  IF ~e.numpy THEN {-1}
        ELSE IF Len(arr) < MinFFTLen THEN {-1}
        ELSE IF IsConstant(window)
             THEN IF level < SpectrumEps THEN {0} ELSE {1000}
        ELSE FlatnessRange

\* ----------------------------------------------------------------- state
VARIABLES
    env,        \* which optional modules can be imported
    fs,         \* the files on disk, by path
    argv,       \* the parsed command line of main
    pc,         \* position of main
    idx,        \* index of the path the loop of main is at
    all_ok,     \* main's all_ok
    stdout,     \* the lines printed so far
    exit_code,  \* the value main returned
    vpc,        \* position of the running validate_one call
    vargs,      \* its arguments
    vloc,       \* its local variables
    vret,       \* its return value (passed, message)
    evaluated,  \* the checks it has evaluated so far, in order
    tasks,      \* one validate_one call per path, each with its own frame
    current,    \* the task whose frame is the running call (0: none)
    call,       \* a direct call of a library function: name and arguments
    result,     \* its return value
    wrapper,    \* which training stream wrapper was called ("": none)
    ts,         \* the training-state argument of the call
    heap,       \* the training-state dicts, by identity
    stream,     \* what the underlying training stream will do
    taken,      \* how many items the wrapper has taken from the stream
    wpc,        \* position of the wrapper generator
    wstate,     \* the wrapper's local `state`: the identity of a dict
    yielded,    \* the tuples the wrapper has yielded so far
    logged      \* the messages given to logger.exception

vars == <<env, fs, argv, pc, idx, all_ok, stdout, exit_code,
          vpc, vargs, vloc, vret, evaluated, tasks, current, call, result,
          wrapper, ts, heap, stream, taken, wpc, wstate, yielded, logged>>

mainVars == <<argv, pc, idx, all_ok, stdout, exit_code>>

worldVars == <<env, fs>>

poolVars == <<tasks, current>>

callVars == <<call, result>>

trainVars == <<wrapper, ts, heap, stream, taken, wpc, wstate, yielded, logged>>

\* a training-state dict; NoObject: no dict of that identity exists
TrainingState(is_training, should_stop) ==
    [exists |-> TRUE, is_training |-> is_training, should_stop |-> should_stop]

NoObject == [exists |-> FALSE, is_training |-> FALSE, should_stop |-> FALSE]

HeapIds == {"caller", "fresh", "other"}

\* no training stream wrapper has been called
NoTraining ==
    /\ wrapper = ""
    /\ ts = [kind |-> "none"]
    /\ heap = [i \in HeapIds |-> NoObject]
    /\ stream = [items |-> <<>>, ending |-> "return", msg |-> ""]
    /\ taken = 0
    /\ wpc = "idle"
    /\ wstate = ""
    /\ yielded = <<>>
    /\ logged = <<>>

\* --------------------------------------------------------- validate_one
IsNonFinite(x) == x = NaN \/ x = PosInf \/ x = NegInf

Msg(text, info) == [text |-> text, info |-> info]

NoInfo == [none |-> TRUE]

NoLocals == [loaded |-> FALSE]

NoReturn == [passed |-> FALSE, msg |-> Msg("", NoInfo), set |-> FALSE]

\* no task and no direct library call
NoCall == [fn |-> "", samples |-> <<>>, channels |-> 0]

NoTasks == tasks = <<>> /\ current = 0

NoLibraryCall == call = NoCall /\ result = None

VArgs(path, min_std, min_peak, expected_duration, duration_tolerance) ==
    [path |-> path, min_std |-> min_std, min_peak |-> min_peak,
     expected_duration |-> expected_duration,
     duration_tolerance |-> duration_tolerance]

Return(passed, msg) ==
    /\ vret' = [passed |-> passed, msg |-> msg, set |-> TRUE]
    /\ vpc' = "returned"

\* abs(actual_duration - expected_duration) > duration_tolerance with
\* actual_duration = total_samples / rate if rate > 0 else 0
DurationOff(total_samples, rate, expected, tolerance) ==
    IF rate > 0
    THEN Abs(total_samples * 1000 - expected * rate) > tolerance * rate
    ELSE Abs(0 - expected) > tolerance

\* variant: a missing path is a failure
VExists_MissingFails ==
    /\ vpc = "exists"
    /\ evaluated' = Append(evaluated, "exists")
    /\ IF ~fs[vargs.path].exists
       THEN Return(FALSE, Msg("missing file", NoInfo))
       ELSE vpc' = "size" /\ UNCHANGED vret
    /\ UNCHANGED <<worldVars, trainVars, poolVars, callVars, mainVars, vargs, vloc>>

\* if not path.exists(): return True, "skip (missing)"
VExists ==
    /\ vpc = "exists"
    /\ evaluated' = Append(evaluated, "exists")
    /\ IF ~fs[vargs.path].exists
       THEN Return(TRUE, Msg("skip (missing)", NoInfo))
       ELSE vpc' = "size" /\ UNCHANGED vret
    /\ UNCHANGED <<worldVars, trainVars, poolVars, callVars, mainVars, vargs, vloc>>

\* if path.stat().st_size == 0: return False, "empty file"
VSize ==
    /\ vpc = "size"
    /\ evaluated' = Append(evaluated, "size")
    /\ IF fs[vargs.path].empty
       THEN Return(FALSE, Msg("empty file", NoInfo))
       ELSE vpc' = "load" /\ UNCHANGED vret
    /\ UNCHANGED <<worldVars, trainVars, poolVars, callVars, mainVars, vargs, vloc>>

\* try: samples, rate, channels = load_audio(path)
\* except Exception as e: return False, str(e)
VLoad ==
    /\ vpc = "load"
    /\ evaluated' = Append(evaluated, "load")
    /\ LET r == LoadAudio(fs[vargs.path], env)
       IN  IF ~r.ok
           THEN /\ Return(FALSE, Msg(r.err, [tried |-> r.tried]))
                /\ vloc' = [loaded |-> FALSE, tried |-> r.tried]
           ELSE /\ vloc' = [loaded |-> TRUE, tried |-> r.tried,
                            samples |-> r.samples, rate |-> r.rate,
                            channels |-> r.channels]
                /\ vpc' = "nosamples"
                /\ UNCHANGED vret
    /\ UNCHANGED <<worldVars, trainVars, poolVars, callVars, mainVars, vargs>>

\* if not samples: return False, "no samples"
VNoSamples ==
    /\ vpc = "nosamples"
    /\ evaluated' = Append(evaluated, "nosamples")
    /\ IF vloc.samples = <<>>
       THEN Return(FALSE, Msg("no samples", NoInfo))
       ELSE vpc' = "naninf" /\ UNCHANGED vret
    /\ UNCHANGED <<worldVars, trainVars, poolVars, callVars, mainVars, vargs, vloc>>

\* variant: -inf is not tested
VNanInf_NoNegInf ==
    /\ vpc = "naninf"
    /\ evaluated' = Append(evaluated, "naninf")
    /\ IF \E k \in DOMAIN vloc.samples :
             \/ vloc.samples[k] = NaN
             \/ vloc.samples[k] = PosInf
       THEN Return(FALSE, Msg("NaN or Inf in samples", NoInfo))
       ELSE vpc' = "stats" /\ UNCHANGED vret
    /\ UNCHANGED <<worldVars, trainVars, poolVars, callVars, mainVars, vargs, vloc>>

\* for x in samples:
\*     if x != x or x == float("inf") or x == float("-inf"): return False, ...
VNanInf ==
    /\ vpc = "naninf"
    /\ evaluated' = Append(evaluated, "naninf")
    /\ IF \E k \in DOMAIN vloc.samples :
             \/ vloc.samples[k] = NaN
             \/ vloc.samples[k] = PosInf
             \/ vloc.samples[k] = NegInf
       THEN Return(FALSE, Msg("NaN or Inf in samples", NoInfo))
       ELSE vpc' = "stats" /\ UNCHANGED vret
    /\ UNCHANGED <<worldVars, trainVars, poolVars, callVars, mainVars, vargs, vloc>>

\* variant: the std check is left out
VStats_SkipStd ==
    /\ vpc = "stats"
    /\ evaluated' = Append(evaluated, "stats")
    /\ vloc' = [loaded |-> TRUE, tried |-> vloc.tried,
                samples |-> vloc.samples, rate |-> vloc.rate,
                channels |-> vloc.channels,
                std |-> Stats(vloc.samples), peak |-> Peak(vloc.samples)]
    /\ vpc' = "peak"
    /\ UNCHANGED <<worldVars, trainVars, poolVars, callVars, mainVars, vargs, vret>>

\* _, std = _stats(samples); peak = max(abs(x) for x in samples)
VStats ==
    /\ vpc = "stats"
    /\ evaluated' = Append(evaluated, "stats")
    /\ vloc' = [loaded |-> TRUE, tried |-> vloc.tried,
                samples |-> vloc.samples, rate |-> vloc.rate,
                channels |-> vloc.channels,
                std |-> Stats(vloc.samples), peak |-> Peak(vloc.samples)]
    /\ vpc' = "std"
    /\ UNCHANGED <<worldVars, trainVars, poolVars, callVars, mainVars, vargs, vret>>

\* variant: the peak is tested before the std
VStd_PeakFirst ==
    /\ vpc = "std"
    /\ evaluated' = Append(evaluated, "std")
    /\ IF vloc.peak < vargs.min_peak
       THEN Return(FALSE, Msg("waveform effectively silent",
                              [peak |-> vloc.peak, need |-> vargs.min_peak]))
       ELSE IF StdLeq(vloc.std, vargs.min_std)
       THEN Return(FALSE, Msg("waveform nearly constant",
                              [std |-> vloc.std, need |-> vargs.min_std]))
       ELSE vpc' = "peak" /\ UNCHANGED vret
    /\ UNCHANGED <<worldVars, trainVars, poolVars, callVars, mainVars, vargs, vloc>>

\* if std <= min_std: return False, "waveform nearly constant ..."
VStd ==
    /\ vpc = "std"
    /\ evaluated' = Append(evaluated, "std")
    /\ IF StdLeq(vloc.std, vargs.min_std)
       THEN Return(FALSE, Msg("waveform nearly constant",
                              [std |-> vloc.std, need |-> vargs.min_std]))
       ELSE vpc' = "peak" /\ UNCHANGED vret
    /\ UNCHANGED <<worldVars, trainVars, poolVars, callVars, mainVars, vargs, vloc>>

\* variant: the peak is compared with min_std
VPeak_WrongThreshold ==
    /\ vpc = "peak"
    /\ evaluated' = Append(evaluated, "peak")
    /\ IF vloc.peak < vargs.min_std
       THEN Return(FALSE, Msg("waveform effectively silent",
                              [peak |-> vloc.peak, need |-> vargs.min_peak]))
       ELSE vpc' = "duration" /\ UNCHANGED vret
    /\ UNCHANGED <<worldVars, trainVars, poolVars, callVars, mainVars, vargs, vloc>>

\* variant: peak <= min_peak
VPeak_Inclusive ==
    /\ vpc = "peak"
    /\ evaluated' = Append(evaluated, "peak")
    /\ IF vloc.peak <= vargs.min_peak
       THEN Return(FALSE, Msg("waveform effectively silent",
                              [peak |-> vloc.peak, need |-> vargs.min_peak]))
       ELSE vpc' = "duration" /\ UNCHANGED vret
    /\ UNCHANGED <<worldVars, trainVars, poolVars, callVars, mainVars, vargs, vloc>>

\* if peak < min_peak: return False, "waveform effectively silent ..."
VPeak ==
    /\ vpc = "peak"
    /\ evaluated' = Append(evaluated, "peak")
    /\ IF vloc.peak < vargs.min_peak
       THEN Return(FALSE, Msg("waveform effectively silent",
                              [peak |-> vloc.peak, need |-> vargs.min_peak]))
       ELSE vpc' = "duration" /\ UNCHANGED vret
    /\ UNCHANGED <<worldVars, trainVars, poolVars, callVars, mainVars, vargs, vloc>>

\* total_samples = len(samples) // max(channels, 1), then the duration check
VDuration ==
    /\ vpc = "duration"
    /\ evaluated' = Append(evaluated, "duration")
    /\ LET total_samples == Len(vloc.samples) \div Max(vloc.channels, 1)
       IN  IF /\ vargs.expected_duration # None
              /\ vargs.expected_duration[1] > 0
              /\ DurationOff(total_samples, vloc.rate,
                             vargs.expected_duration[1], vargs.duration_tolerance)
           THEN Return(FALSE, Msg("duration mismatch",
                                  [expected |-> vargs.expected_duration[1],
                                   frames |-> total_samples, rate |-> vloc.rate,
                                   tolerance |-> vargs.duration_tolerance]))
           ELSE vpc' = "report" /\ UNCHANGED vret
    /\ UNCHANGED <<worldVars, trainVars, poolVars, callVars, mainVars, vargs, vloc>>

\* the stereo independence check of lines 159-171: "" when it does not
\* run, else the warning tag or the average difference diff_sum / n_check
StereoInfo_Signed(samples, channels) ==
    IF channels = 2 /\ Len(samples) >= StereoCheckMin
    THEN LET left == Stride(samples, 0, 2)
             right == Stride(samples, 1, 2)
             n_check == Min(Min(Len(left), Len(right)), StereoCheckMax)
             diff_sum == SeqSum([k \in 1..n_check |-> left[k] - right[k]])
         IN  IF n_check = 0 \/ diff_sum * 1000 < n_check
             THEN [tag |-> "WARN:channels_identical"]
             ELSE [tag |-> "stereo_diff", diff_sum |-> diff_sum, n_check |-> n_check]
    ELSE [tag |-> ""]

StereoInfo(samples, channels) ==
    IF channels = 2 /\ Len(samples) >= StereoCheckMin
    THEN LET left == Stride(samples, 0, 2)
             right == Stride(samples, 1, 2)
             n_check == Min(Min(Len(left), Len(right)), StereoCheckMax)
             diff_sum == SeqSum([k \in 1..n_check |-> Abs(left[k] - right[k])])
         IN  \* avg_diff < 1e-6, avg_diff = diff_sum / n_check in 1/1000
             IF n_check = 0 \/ diff_sum * 1000 < n_check
             THEN [tag |-> "WARN:channels_identical"]
             ELSE [tag |-> "stereo_diff", diff_sum |-> diff_sum, n_check |-> n_check]
    ELSE [tag |-> ""]

\* variant: identical channels fail the file
VReport_FailOnIdentical ==
    /\ vpc = "report"
    /\ evaluated' = Append(evaluated, "report")
    /\ \E sf \in SpectralFlatness(vloc.samples, vloc.channels, env) :
         Return(StereoInfo(vloc.samples, vloc.channels).tag # "WARN:channels_identical",
            Msg("ok",
            [std |-> vloc.std, peak |-> vloc.peak,
             frames |-> Len(vloc.samples) \div Max(vloc.channels, 1),
             rate |-> vloc.rate, ch |-> vloc.channels,
             ch_stats |-> ChannelStats(vloc.samples, vloc.channels),
             stereo |-> StereoInfo(vloc.samples, vloc.channels),
             spectral |-> IF sf >= 0 THEN <<sf>> ELSE <<>>]))
    /\ UNCHANGED <<worldVars, trainVars, poolVars, callVars, mainVars, vargs, vloc>>

\* variant: a flatness of 0.0 fails the file
VReport_TonalFails ==
    /\ vpc = "report"
    /\ evaluated' = Append(evaluated, "report")
    /\ \E sf \in SpectralFlatness(vloc.samples, vloc.channels, env) :
         Return(sf # 0, Msg("ok",
            [std |-> vloc.std, peak |-> vloc.peak,
             frames |-> Len(vloc.samples) \div Max(vloc.channels, 1),
             rate |-> vloc.rate, ch |-> vloc.channels,
             ch_stats |-> ChannelStats(vloc.samples, vloc.channels),
             stereo |-> StereoInfo(vloc.samples, vloc.channels),
             spectral |-> IF sf >= 0 THEN <<sf>> ELSE <<>>]))
    /\ UNCHANGED <<worldVars, trainVars, poolVars, callVars, mainVars, vargs, vloc>>

\* lines 151-181: the pass message
VReport ==
    /\ vpc = "report"
    /\ evaluated' = Append(evaluated, "report")
    /\ \E sf \in SpectralFlatness(vloc.samples, vloc.channels, env) :
         Return(TRUE, Msg("ok",
            [std |-> vloc.std, peak |-> vloc.peak,
             frames |-> Len(vloc.samples) \div Max(vloc.channels, 1),
             rate |-> vloc.rate, ch |-> vloc.channels,
             ch_stats |-> ChannelStats(vloc.samples, vloc.channels),
             stereo |-> StereoInfo(vloc.samples, vloc.channels),
             spectral |-> IF sf >= 0 THEN <<sf>> ELSE <<>>]))
    /\ UNCHANGED <<worldVars, trainVars, poolVars, callVars, mainVars, vargs, vloc>>

\* --------------------------------------------------------- compare_files
Finite(samples) == \A k \in DOMAIN samples : ~IsNonFinite(samples[k])

\* p.name: the last component of the path (a path is the tuple of its
\* components)
PathName(p) == p[Len(p)]

\* results[p.name] = (mean, std, peak): a dict keeps the position of the
\* first insertion of a key and the value of the last one
DictPut(d, key, value) ==
    IF \E k \in DOMAIN d : d[k].key = key
    THEN [k \in DOMAIN d |-> IF d[k].key = key THEN [key |-> key, value |-> value] ELSE d[k]]
    ELSE Append(d, [key |-> key, value |-> value])

\* x > y on floats: every comparison with NaN is false
FloatGt(x, y) == x # NaN /\ y # NaN /\ x > y

FloatAbs(x) == IF x = NaN THEN NaN ELSE Abs(x)

\* max(abs(x) for x in samples): the running maximum is replaced only by
\* an item that compares greater, so a leading NaN stays and a later NaN
\* is passed over
RECURSIVE PyMaxFrom(_, _)
PyMaxFrom(cur, s) ==
    IF s = <<>> THEN cur
    ELSE PyMaxFrom(IF FloatGt(FloatAbs(Head(s)), cur) THEN FloatAbs(Head(s)) ELSE cur,
                   Tail(s))

FloatPeak(samples) == PyMaxFrom(FloatAbs(Head(samples)), Tail(samples))

\* sum(samples) when a sample is not finite
NonFiniteSum(samples) ==
    LET has(v) == \E k \in DOMAIN samples : samples[k] = v
    IN  IF has(NaN) \/ (has(PosInf) /\ has(NegInf)) THEN NaN
        ELSE IF has(PosInf) THEN PosInf ELSE NegInf

\* _stats on floats: with a non-finite sample the mean is NaN or an
\* infinity, the variance is NaN and max(0.0, NaN) ** 0.5 is 0.0
FloatStats(samples) ==
    IF Finite(samples) THEN Stats(samples)
    ELSE [mean_num |-> NonFiniteSum(samples), mean_den |-> 1,
          var_num |-> 0, var_den |-> 1]

\* the entry of one loaded file: (mean, std, peak)
FileSummary(r) ==
    [finite |-> Finite(r.samples), stats |-> FloatStats(r.samples),
     peak |-> IF r.samples # <<>> THEN FloatPeak(r.samples) ELSE 0]

RECURSIVE CompareResults(_, _, _)
CompareResults(paths, files, e) ==
    IF paths = <<>> THEN <<>>
    ELSE LET p == paths[Len(paths)]
             before == CompareResults(SubSeq(paths, 1, Len(paths) - 1), files, e)
             r == LoadAudio(files[p], e)
         IN  IF ~files[p].exists THEN before
             ELSE IF ~r.ok THEN before
             ELSE DictPut(before, PathName(p), FileSummary(r))

\* a quotient is kept as its numerator and denominator
Quotient(a, b) == [kind |-> "quotient", num |-> a, den |-> b]

Infinity == [kind |-> "inf"]

\* p1 / p2 if p2 > 0 else float("inf")
Ratio_Unguarded(a, b) == Quotient(a, b)

Ratio(a, b) == IF FloatGt(b, 0) THEN Quotient(a, b) ELSE Infinity

\* s1 / s2 if s2 > 0 else float("inf"), the deviations kept as statistics
StdRatio(sa, sb) == IF sb.var_num > 0 THEN Quotient(sa, sb) ELSE Infinity

\* abs(m1 - m2)
MeanDiff(sa, sb) ==
    LET ma == sa.mean_num
        mb == sb.mean_num
    IN  IF ma = NaN \/ mb = NaN THEN [kind |-> "nan"]
        ELSE IF IsNonFinite(ma) /\ IsNonFinite(mb)
             THEN IF ma = mb THEN [kind |-> "nan"] ELSE Infinity
        ELSE IF IsNonFinite(ma) \/ IsNonFinite(mb) THEN Infinity
        ELSE Quotient(Abs(ma * sb.mean_den - mb * sa.mean_den),
                      sa.mean_den * sb.mean_den)

CompareMetrics(a, b) ==
    [kind |-> "metrics", a |-> a.key, b |-> b.key,
     mean_diff |-> MeanDiff(a.value.stats, b.value.stats),
     std_ratio |-> StdRatio(a.value.stats, b.value.stats),
     peak_ratio |-> Ratio(a.value.peak, b.value.peak)]

CompareFiles(paths, files, e) ==
    LET results == CompareResults(paths, files, e)
    IN  IF Len(paths) < 2 THEN <<>>
        ELSE IF Len(results) < 2 THEN <<>>
        ELSE <<[kind |-> "header"]>>
             \o [k \in DOMAIN results |->
                   [kind |-> "summary", name |-> results[k].key,
                    value |-> results[k].value]]
             \o <<CompareMetrics(results[1], results[2])>>

\* ------------------------------------------------------------------ main
Args(paths, expected_duration, duration_tolerance, compare) ==
    [paths |-> paths, expected_duration |-> expected_duration,
     duration_tolerance |-> duration_tolerance, compare |-> compare]

validateVars == <<vpc, vargs, vloc, vret, evaluated>>

\* paths = args.paths; if not paths: return 0; all_ok = True
MainStart ==
    /\ pc = "start"
    /\ IF argv.paths = <<>>
       THEN /\ exit_code' = 0
            /\ pc' = "done"
            /\ UNCHANGED <<idx, all_ok>>
       ELSE /\ all_ok' = TRUE
            /\ idx' = 1
            /\ pc' = "loop"
            /\ UNCHANGED exit_code
    /\ UNCHANGED <<worldVars, trainVars, poolVars, callVars, argv, stdout, validateVars>>

\* for p in paths: ok, msg = validate_one(p, expected_duration=..., ...)
MainCall ==
    /\ pc = "loop"
    /\ idx <= Len(argv.paths)
    /\ vargs' = VArgs(argv.paths[idx], DefaultMinStd, DefaultMinPeak,
                      argv.expected_duration, argv.duration_tolerance)
    /\ vpc' = "exists"
    /\ vloc' = NoLocals
    /\ vret' = NoReturn
    /\ evaluated' = <<>>
    /\ pc' = "call"
    /\ UNCHANGED <<worldVars, trainVars, poolVars, callVars, argv, idx, all_ok, stdout, exit_code>>

\* variant: the last verdict decides
UpdateAllOk_LastWins(ok_so_far, ok) == ok

\* print(f"{status} {p}: {msg}"); if not ok: all_ok = False
UpdateAllOk(ok_so_far, ok) == IF ~ok THEN FALSE ELSE ok_so_far

\* variant: the loop ends at the first failure
MainPrint_AbortOnFail ==
    /\ pc = "call"
    /\ vpc = "returned"
    /\ stdout' = Append(stdout,
                        [kind |-> "verdict",
                         status |-> IF vret.passed THEN "PASS" ELSE "FAIL",
                         path |-> argv.paths[idx], msg |-> vret.msg])
    /\ all_ok' = UpdateAllOk(all_ok, vret.passed)
    /\ idx' = IF vret.passed THEN idx + 1 ELSE Len(argv.paths) + 1
    /\ vpc' = "idle"
    /\ pc' = "loop"
    /\ UNCHANGED <<worldVars, trainVars, poolVars, callVars, argv, exit_code, vargs, vloc, vret, evaluated>>

MainPrint ==
    /\ pc = "call"
    /\ vpc = "returned"
    /\ stdout' = Append(stdout,
                        [kind |-> "verdict",
                         status |-> IF vret.passed THEN "PASS" ELSE "FAIL",
                         path |-> argv.paths[idx], msg |-> vret.msg])
    /\ all_ok' = UpdateAllOk(all_ok, vret.passed)
    /\ idx' = idx + 1
    /\ vpc' = "idle"
    /\ pc' = "loop"
    /\ UNCHANGED <<worldVars, trainVars, poolVars, callVars, argv, exit_code, vargs, vloc, vret, evaluated>>

MainCompare_Gate ==
    /\ pc = "loop"
    /\ idx > Len(argv.paths)
    /\ stdout' = IF argv.compare
                 THEN stdout \o CompareFiles(argv.paths, fs, env)
                 ELSE stdout
    /\ all_ok' = IF argv.compare
                 THEN all_ok /\ CompareFiles(argv.paths, fs, env) # <<>>
                 ELSE all_ok
    /\ pc' = "return"
    /\ UNCHANGED <<worldVars, trainVars, poolVars, callVars, argv, idx, exit_code, validateVars>>

\* if args.compare: for line in compare_files(paths): print(line)
MainCompare ==
    /\ pc = "loop"
    /\ idx > Len(argv.paths)
    /\ stdout' = IF argv.compare
                 THEN stdout \o CompareFiles(argv.paths, fs, env)
                 ELSE stdout
    /\ pc' = "return"
    /\ UNCHANGED <<worldVars, trainVars, poolVars, callVars, argv, idx, all_ok, exit_code, validateVars>>

\* return 0 if all_ok else 1
MainReturn ==
    /\ pc = "return"
    /\ exit_code' = IF all_ok THEN 0 ELSE 1
    /\ pc' = "done"
    /\ UNCHANGED <<worldVars, trainVars, poolVars, callVars, argv, idx, all_ok, stdout, validateVars>>

\* ---------------------------------------------------------------- inputs
\* numpy is a dependency of both optional decoders
Envs ==
    {e \in [soundfile : BOOLEAN, scipy : BOOLEAN, numpy : BOOLEAN] :
        (e.soundfile \/ e.scipy) => e.numpy}

EnvNone == [soundfile |-> FALSE, scipy |-> FALSE, numpy |-> FALSE]

EnvAll == [soundfile |-> TRUE, scipy |-> TRUE, numpy |-> TRUE]

\* stored 16-bit values: they decode to 0, 0.005, 0.010, 0.498, 0.5, -0.5
PcmVals == {0, 164, 328, 16319, 16384, -16384}

FloatVals == {0, 500, -500, NaN, PosInf, NegInf}

\* 16-bit files, read here by the standard-library decoder, which accepts
\* a zero sample rate and a data chunk cut inside a frame
PcmFiles ==
    {File(TRUE, FALSE, "pcm16", r, c, d) :
        r \in {0, 1, 2}, c \in {1, 2}, d \in SeqsUpTo(PcmVals, MaxSamples)}

FloatFiles ==
    {f \in {File(TRUE, FALSE, "float32", r, c, d) :
              r \in {1, 2}, c \in {1, 2}, d \in SeqsUpTo(FloatVals, MaxSamples)} :
        WholeFrames(f)}

GoodPcm == File(TRUE, FALSE, "pcm16", 2, 1, <<16384, -16384>>)

HalfPcm == File(TRUE, FALSE, "pcm16", 2, 1, <<8192, -8192>>)

QuietPcm == File(TRUE, FALSE, "pcm16", 2, 1, <<164, -164>>)

ZeroPcm == File(TRUE, FALSE, "pcm16", 2, 1, <<0, 0>>)

NanFloat == File(TRUE, FALSE, "float32", 2, 1, <<500, NaN>>)

GoodFloat == File(TRUE, FALSE, "float32", 2, 1, <<500, -500>>)

DecoderFiles == {MissingFile, EmptyFile, CorruptFile, GoodPcm, GoodFloat, NanFloat}

\* the files of the runs of main
Catalogue ==
    (<<"missing.wav">> :> MissingFile) @@ (<<"empty.wav">> :> EmptyFile)
    @@ (<<"corrupt.wav">> :> CorruptFile) @@ (<<"zero.wav">> :> ZeroPcm)
    @@ (<<"nan.wav">> :> NanFloat) @@ (<<"quiet.wav">> :> QuietPcm)
    @@ (<<"py", "out.wav">> :> GoodPcm) @@ (<<"swift", "out.wav">> :> HalfPcm)

Paths == DOMAIN Catalogue

ExpectedDurations == {None, Some(-1000), Some(0), Some(1000), Some(1500), Some(5000)}

Tolerances == {DefaultDurationTolerance, 250}

Thresholds == {<<DefaultMinStd, DefaultMinPeak>>, <<2, 20>>}

\* ------------------------------------------------------- specifications
\* A run of the command line: python scripts/validate_audio.py [options] paths
Init ==
    /\ NoTraining
    /\ env \in {EnvNone, EnvAll}
    /\ fs = Catalogue
    /\ argv \in {Args(ps, e, DefaultDurationTolerance, c) :
                   ps \in SeqsUpTo(Paths, MaxPaths),
                   e \in {None, Some(1000), Some(5000)}, c \in BOOLEAN}
    /\ pc = "start"
    /\ idx = 0
    /\ all_ok = TRUE
    /\ stdout = <<>>
    /\ exit_code = NotReturned
    /\ NoTasks
    /\ NoLibraryCall
    /\ vpc = "idle"
    /\ vargs = VArgs(<<>>, DefaultMinStd, DefaultMinPeak, None, DefaultDurationTolerance)
    /\ vloc = NoLocals
    /\ vret = NoReturn
    /\ evaluated = <<>>

Next ==
    \/ MainStart \/ MainCall \/ MainPrint \/ MainCompare \/ MainReturn
    \/ VExists \/ VSize \/ VLoad \/ VNoSamples \/ VNanInf
    \/ VStats \/ VStd \/ VPeak \/ VDuration \/ VReport

Spec == Init /\ [][Next]_vars

\* A direct call validate_one(path, min_std, min_peak, expected_duration,
\* duration_tolerance) on one file
CallPath == <<"py", "out.wav">>

InitValidate ==
    /\ NoTraining
    /\ \E f \in PcmFiles \cup FloatFiles \cup DecoderFiles :
         /\ fs = [p \in Paths |-> IF p = CallPath THEN f ELSE MissingFile]
         /\ \/ f \in PcmFiles /\ env = EnvNone
            \/ f \in FloatFiles /\ env = EnvAll
            \/ f \in DecoderFiles /\ env \in Envs
    /\ \E t \in Thresholds, e \in ExpectedDurations, tol \in Tolerances :
         vargs = VArgs(CallPath, t[1], t[2], e, tol)
    /\ vpc = "exists"
    /\ vloc = NoLocals
    /\ vret = NoReturn
    /\ evaluated = <<>>
    /\ argv = Args(<<>>, None, DefaultDurationTolerance, FALSE)
    /\ pc = "library"
    /\ idx = 0
    /\ all_ok = TRUE
    /\ stdout = <<>>
    /\ exit_code = NotReturned
    /\ NoTasks
    /\ NoLibraryCall

NextValidate ==
    \/ VExists \/ VSize \/ VLoad \/ VNoSamples \/ VNanInf
    \/ VStats \/ VStd \/ VPeak \/ VDuration \/ VReport

SpecValidate == InitValidate /\ [][NextValidate]_vars

\* ======================================================== properties
\* Reference definitions, written from the documented rules and not from
\* the steps above.
TheFile == fs[vargs.path]

CheckOrder ==
    <<"exists", "size", "load", "nosamples", "naninf", "std", "peak", "duration">>

CheckNames == {CheckOrder[k] : k \in DOMAIN CheckOrder}

ChecksDone == SelectSeq(evaluated, LAMBDA c : c \in CheckNames)

SumSq(s) == SeqSum([k \in DOMAIN s |-> s[k] * s[k]])

\* std > t  <=>  n * sum(x^2) - sum(x)^2 > (n * t)^2
StdAbove(s, t) == Len(s) * SumSq(s) - SeqSum(s) * SeqSum(s) > (Len(s) * t) * (Len(s) * t)

StdEquals(s, t) == Len(s) * SumSq(s) - SeqSum(s) * SeqSum(s) = (Len(s) * t) * (Len(s) * t)

PeakAtLeast(s, t) == \E k \in DOMAIN s : s[k] >= t \/ s[k] <= -t

AllZero(s) == \A k \in DOMAIN s : s[k] = 0

AllEqual(s) == \A j, k \in DOMAIN s : s[j] = s[k]

Frames(r) == Len(r.samples) \div (IF r.channels > 1 THEN r.channels ELSE 1)

\* |frames / rate - expected| <= tolerance, the duration being 0 at rate 0
WithinTolerance(frames, rate, expected, tolerance) ==
    IF rate > 0
    THEN /\ frames * 1000 - expected * rate <= tolerance * rate
         /\ expected * rate - frames * 1000 <= tolerance * rate
    ELSE expected <= tolerance /\ -expected <= tolerance

DurationChecked(a) == a.expected_duration # None /\ a.expected_duration[1] > 0

\* the check named c stops the validation of file f (checks before it aside)
Stops(c, f, e, a) ==
    LET r == LoadAudio(f, e)
    IN  CASE c = "exists" -> ~f.exists
          [] c = "size" -> f.empty
          [] c = "load" -> ~r.ok
          [] c = "nosamples" -> r.samples = <<>>
          [] c = "naninf" -> ~Finite(r.samples)
          [] c = "std" -> Finite(r.samples) /\ ~StdAbove(r.samples, a.min_std)
          [] c = "peak" -> Finite(r.samples) /\ ~PeakAtLeast(r.samples, a.min_peak)
          [] c = "duration" ->
               /\ DurationChecked(a)
               /\ ~WithinTolerance(Frames(r), r.rate, a.expected_duration[1],
                                   a.duration_tolerance)

StoppingChecks(f, e, a) == {k \in DOMAIN CheckOrder : Stops(CheckOrder[k], f, e, a)}

FirstStop(f, e, a) ==
    CHOOSE k \in StoppingChecks(f, e, a) : \A j \in StoppingChecks(f, e, a) : k <= j

TextOf(c, f, e) ==
    CASE c = "exists" -> "skip (missing)"
      [] c = "size" -> "empty file"
      [] c = "load" -> LoadAudio(f, e).err
      [] c = "nosamples" -> "no samples"
      [] c = "naninf" -> "NaN or Inf in samples"
      [] c = "std" -> "waveform nearly constant"
      [] c = "peak" -> "waveform effectively silent"
      [] c = "duration" -> "duration mismatch"

\* the documented verdict of a file: missing passes, every other stop fails
Accepts(f, e, a) ==
    \/ ~f.exists
    \/ StoppingChecks(f, e, a) = {}

ExpectedText(f, e, a) ==
    IF StoppingChecks(f, e, a) = {} THEN "ok"
    ELSE TextOf(CheckOrder[FirstStop(f, e, a)], f, e)

MainArgs(p) ==
    VArgs(p, DefaultMinStd, DefaultMinPeak, argv.expected_duration,
          argv.duration_tolerance)

Returned == vpc = "returned" /\ vret.set

\* ------------------------------------------------------------------- C1
\* C1: when main has returned, its exit code is 0 if and only if every
\* supplied path is accepted by validation (a missing path is accepted);
\* one rejected path at any position makes it 1; no paths gives 0.
C1_ExitCode ==
    pc = "done" =>
        /\ exit_code \in {0, 1}
        /\ exit_code = 0 <=>
             \A k \in DOMAIN argv.paths :
                 Accepts(fs[argv.paths[k]], env, MainArgs(argv.paths[k]))

C1_Witness ==
    /\ pc = "done"
    /\ exit_code = 1
    /\ Len(argv.paths) = 2
    /\ ~Accepts(fs[argv.paths[1]], env, MainArgs(argv.paths[1]))
    /\ Accepts(fs[argv.paths[2]], env, MainArgs(argv.paths[2]))

\* ------------------------------------------------------------------- C2
\* C2: a pass for an existing path means: the file is not empty, it
\* decoded, it has a sample, every sample is finite, std > min_std,
\* peak >= min_peak and, with a positive expected duration, the duration
\* is within the tolerance; the samples are neither all zero nor all equal.
C2_PassMeansHealthy ==
    (Returned /\ vret.passed /\ TheFile.exists) =>
        LET r == LoadAudio(TheFile, env)
        IN  /\ ~TheFile.empty
            /\ r.ok
            /\ r.samples # <<>>
            /\ Finite(r.samples)
            /\ StdAbove(r.samples, vargs.min_std)
            /\ PeakAtLeast(r.samples, vargs.min_peak)
            /\ DurationChecked(vargs) =>
                 WithinTolerance(Frames(r), r.rate, vargs.expected_duration[1],
                                 vargs.duration_tolerance)
            /\ ~AllZero(r.samples)
            /\ ~AllEqual(r.samples)

C2_Witness ==
    /\ Returned /\ vret.passed /\ TheFile.exists
    /\ DurationChecked(vargs)
    /\ vret.msg.text = "ok"

\* ------------------------------------------------------------------- C3
\* C3: the checks are evaluated in the order missing, empty, decode, no
\* samples, NaN/Inf, std, peak, duration; validation returns at the first
\* check that stops it, with that check's message, and evaluates no check
\* after it.
C3_FirstFailingWins ==
    /\ ChecksDone = SubSeq(CheckOrder, 1, Len(ChecksDone))
    /\ Returned =>
         IF StoppingChecks(TheFile, env, vargs) = {}
         THEN vret.passed /\ ChecksDone = CheckOrder
         ELSE LET k == FirstStop(TheFile, env, vargs)
              IN  /\ vret.msg.text = TextOf(CheckOrder[k], TheFile, env)
                  /\ ChecksDone = SubSeq(CheckOrder, 1, k)
                  /\ vret.passed <=> k = 1

\* a file that fails two checks (std and peak) is reported under the first
C3_Witness ==
    /\ Returned
    /\ Cardinality(StoppingChecks(TheFile, env, vargs)) >= 2
    /\ vret.msg.text = "waveform nearly constant"
    /\ Stops("peak", TheFile, env, vargs)

\* ------------------------------------------------------------------- C4
\* C4: a missing path is passed as "skip (missing)" without a decode
\* attempt, and a run whose paths are all missing exits with 0.
C4_MissingIsSkipped ==
    /\ (Returned /\ ~TheFile.exists) =>
          /\ vret.passed
          /\ vret.msg.text = "skip (missing)"
          /\ \A k \in DOMAIN evaluated : evaluated[k] # "load"
          /\ ~vloc.loaded
    /\ (pc = "done" /\ \A k \in DOMAIN argv.paths : ~fs[argv.paths[k]].exists) =>
          exit_code = 0

C4_Witness ==
    /\ pc = "done"
    /\ Len(argv.paths) = 2
    /\ \A k \in DOMAIN argv.paths : ~fs[argv.paths[k]].exists
    /\ exit_code = 0
    /\ \A k \in DOMAIN stdout : stdout[k].msg.text = "skip (missing)"

\* ------------------------------------------------------------------- C5
\* C5: main prints one verdict line per path, in input order, whatever the
\* outcomes of the files; the comparison lines appear only with --compare
\* and only after all the verdict lines.
VerdictLines == SelectSeq(stdout, LAMBDA l : l.kind = "verdict")

C5_OneVerdictPerPath ==
    /\ pc \in {"loop", "call"} =>
          /\ Len(stdout) = idx - 1
          /\ VerdictLines = stdout
    /\ pc \in {"return", "done"} /\ argv.paths # <<>> =>
          /\ Len(VerdictLines) = Len(argv.paths)
          /\ SubSeq(stdout, 1, Len(argv.paths)) = VerdictLines
          /\ Len(stdout) > Len(argv.paths) => argv.compare
    /\ pc = "done" /\ argv.paths = <<>> => stdout = <<>>
    /\ \A k \in DOMAIN VerdictLines :
          LET p == argv.paths[k]
              l == VerdictLines[k]
          IN  /\ l.path = p
              /\ l.status = IF Accepts(fs[p], env, MainArgs(p)) THEN "PASS" ELSE "FAIL"
              /\ l.msg.text = ExpectedText(fs[p], env, MainArgs(p))

\* a decode error on the first file, the verdicts of the two files after
\* it, then the comparison lines
C5_Witness ==
    /\ pc = "done"
    /\ Len(argv.paths) = 3
    /\ Len(stdout) > 3
    /\ stdout[1].status = "FAIL"
    /\ fs[argv.paths[1]].exists /\ ~fs[argv.paths[1]].empty
    /\ ~LoadAudio(fs[argv.paths[1]], env).ok
    /\ stdout[2].status = "PASS"
    /\ stdout[2].msg.text = "ok"
    /\ stdout[3].kind = "verdict"
    /\ stdout[4].kind = "header"

\* ------------------------------------------------------------------- C6
DefaultThresholds == vargs.min_std = DefaultMinStd /\ vargs.min_peak = DefaultMinPeak

\* the file decodes to a non-empty waveform of zeros
ZeroWaveform ==
    /\ TheFile.exists /\ ~TheFile.empty
    /\ LoadAudio(TheFile, env).ok
    /\ LoadAudio(TheFile, env).samples # <<>>
    /\ AllZero(LoadAudio(TheFile, env).samples)

\* C6 as stated: with the default thresholds an all-zero waveform fails
\* with the "waveform effectively silent" message of the peak check.
C6_ZeroIsSilent ==
    (Returned /\ DefaultThresholds /\ ZeroWaveform) =>
        ~vret.passed /\ vret.msg.text = "waveform effectively silent"

\* C6 as amended: with the default thresholds an all-zero waveform of any
\* length fails with the "waveform nearly constant" message of the std
\* check, and the peak check is not reached.
C6_ZeroIsConstant ==
    (Returned /\ DefaultThresholds /\ ZeroWaveform) =>
        /\ ~vret.passed
        /\ vret.msg.text = "waveform nearly constant"
        /\ \A k \in DOMAIN evaluated : evaluated[k] # "peak"

C6_Witness ==
    /\ Returned /\ DefaultThresholds /\ ZeroWaveform
    /\ Len(LoadAudio(TheFile, env).samples) >= 2
    /\ vret.msg.text = "waveform nearly constant"

\* ------------------------------------------------------------------- C7
\* the file decodes to a non-empty waveform of finite samples
FiniteWaveform ==
    /\ TheFile.exists /\ ~TheFile.empty
    /\ LoadAudio(TheFile, env).ok
    /\ LoadAudio(TheFile, env).samples # <<>>
    /\ Finite(LoadAudio(TheFile, env).samples)

\* C7: a finite waveform with std <= min_std fails with "waveform nearly
\* constant", whatever its peak; std = min_std fails; with std > min_std
\* the std check passes and the peak check is reached.
C7_StdBoundary ==
    (Returned /\ FiniteWaveform) =>
        IF StdAbove(LoadAudio(TheFile, env).samples, vargs.min_std)
        THEN /\ vret.msg.text # "waveform nearly constant"
             /\ \E k \in DOMAIN evaluated : evaluated[k] = "peak"
        ELSE /\ ~vret.passed
             /\ vret.msg.text = "waveform nearly constant"

\* std exactly min_std with a peak of at least min_peak
C7_Witness ==
    /\ Returned /\ FiniteWaveform
    /\ StdEquals(LoadAudio(TheFile, env).samples, vargs.min_std)
    /\ PeakAtLeast(LoadAudio(TheFile, env).samples, vargs.min_peak)
    /\ vret.msg.text = "waveform nearly constant"

\* ------------------------------------------------------------------- C8
\* C8: a decoded, non-empty waveform with a NaN, +Inf or -Inf sample fails
\* with "NaN or Inf in samples" whatever its other samples, thresholds and
\* duration; the detection comes before the statistics, which are computed
\* and compared on finite samples only.
C8_NonFiniteRejected ==
    /\ vpc \in {"stats", "std", "peak", "duration", "report"} => Finite(vloc.samples)
    /\ \A k \in DOMAIN evaluated :
          evaluated[k] = "stats" => \E j \in 1..(k - 1) : evaluated[j] = "naninf"
    /\ (/\ Returned
        /\ TheFile.exists /\ ~TheFile.empty
        /\ LoadAudio(TheFile, env).ok
        /\ \E k \in DOMAIN LoadAudio(TheFile, env).samples :
              IsNonFinite(LoadAudio(TheFile, env).samples[k]))
       => /\ ~vret.passed
          /\ vret.msg.text = "NaN or Inf in samples"
          /\ evaluated = <<"exists", "size", "load", "nosamples", "naninf">>

\* one NaN among samples that are valid without it
C8_Witness ==
    /\ Returned
    /\ vret.msg.text = "NaN or Inf in samples"
    /\ LET s == LoadAudio(TheFile, env).samples
           rest == SelectSeq(s, LAMBDA x : ~IsNonFinite(x))
       IN  /\ Len(rest) = Len(s) - 1
           /\ \E k \in DOMAIN s : s[k] = NaN
           /\ StdAbove(rest, vargs.min_std)
           /\ PeakAtLeast(rest, vargs.min_peak)

\* ------------------------------------------------------------------- C9
\* the file decodes to a waveform that passes every check before the
\* duration check
PassesEarlierChecks ==
    /\ FiniteWaveform
    /\ StdAbove(LoadAudio(TheFile, env).samples, vargs.min_std)
    /\ PeakAtLeast(LoadAudio(TheFile, env).samples, vargs.min_peak)

\* |(total_samples / channels) / rate - expected| > tolerance, the
\* divisions being exact
ExactDurationOff(r, a) ==
    Abs(Len(r.samples) * 1000 - a.expected_duration[1] * r.channels * r.rate)
        > a.duration_tolerance * r.channels * r.rate

\* C9: a waveform that passes the earlier checks fails with "duration
\* mismatch" if and only if an expected duration is given, is positive and
\* differs from (total_samples / channels) / sample_rate by more than the
\* tolerance.
C9_DurationMismatch ==
    (/\ Returned /\ PassesEarlierChecks
     /\ LoadAudio(TheFile, env).rate > 0 /\ LoadAudio(TheFile, env).channels > 0)
    => (vret.msg.text = "duration mismatch" /\ ~vret.passed
          <=> (DurationChecked(vargs) /\ ExactDurationOff(LoadAudio(TheFile, env), vargs)))

\* the same statement for the files whose data chunk holds whole frames
C9_WholeFrameFiles ==
    (/\ Returned /\ PassesEarlierChecks
     /\ LoadAudio(TheFile, env).rate > 0 /\ WholeFrames(TheFile))
    => (vret.msg.text = "duration mismatch" /\ ~vret.passed
          <=> (DurationChecked(vargs) /\ ExactDurationOff(LoadAudio(TheFile, env), vargs)))

\* ------------------------------------------------------------------ C10
BackendOrder == <<"soundfile", "scipy", "stdlib">>

Installed(b, e) ==
    CASE b = "soundfile" -> e.soundfile
      [] b = "scipy" -> e.scipy
      [] b = "stdlib" -> TRUE

\* the formats a backend decodes
Decodes(b, f) ==
    CASE b = "soundfile" -> f.format \in {"pcm16", "float32"}
      [] b = "scipy" -> f.format \in {"pcm16", "float32"}
      [] b = "stdlib" -> f.format = "pcm16"

LoadDone == \E k \in DOMAIN evaluated : evaluated[k] = "load"

\* C10 as stated: the backends are tried in the order soundfile, scipy,
\* standard library, and a decode failure reaches the caller only when the
\* standard-library backend has been tried and has failed too.
C10_FallThroughOnFailure ==
    LoadDone =>
        /\ vloc.tried = SubSeq(BackendOrder, 1, Len(vloc.tried))
        /\ ~vloc.loaded =>
              /\ vloc.tried = BackendOrder
              /\ ~Decodes("stdlib", TheFile)

\* C10 as amended: the backends are tried in the order soundfile, scipy,
\* standard library; load_audio moves to the next backend only when a
\* backend is not installed, and the first installed backend decides:
\* its waveform is returned, or its decode failure is reported to the
\* caller without a later backend being tried.
C10_FallThroughOnImportError ==
    LoadDone =>
        /\ vloc.tried = SubSeq(BackendOrder, 1, Len(vloc.tried))
        /\ vloc.tried # <<>>
        /\ \A k \in 1..(Len(vloc.tried) - 1) : ~Installed(vloc.tried[k], env)
        /\ Installed(vloc.tried[Len(vloc.tried)], env)
        /\ vloc.loaded <=> Decodes(vloc.tried[Len(vloc.tried)], TheFile)
        /\ ~vloc.loaded => Returned /\ ~vret.passed

\* scipy is the first installed backend and fails: the failure is reported
\* and the standard-library backend is not tried
C10_Witness ==
    /\ LoadDone
    /\ ~env.soundfile /\ env.scipy
    /\ vloc.tried = <<"soundfile", "scipy">>
    /\ ~vloc.loaded
    /\ Returned /\ ~vret.passed

\* ---------------------------------------------------------------------
\* C11: every waveform the decoder hands to validation holds a whole number
\* of frames (len(samples) is a multiple of channels when channels > 0 and
\* samples is not empty), and a source whose data is not a whole number of
\* frames ends as a decode failure instead of being accepted.
C11_WholeFrameWaveforms ==
    /\ (vloc.loaded /\ vloc.channels > 0 /\ vloc.samples # <<>>)
         => Len(vloc.samples) % vloc.channels = 0
    /\ (/\ Returned
        /\ TheFile.exists /\ ~TheFile.empty /\ TheFile.format # "corrupt"
        /\ ~WholeFrames(TheFile))
         => (~vret.passed /\ evaluated[Len(evaluated)] = "load")

\* ---------------------------------------------------------------------
\* Calls of validate_one on 2-channel files of up to MaxStereoFrames frames:
\* float data read by soundfile, and 16-bit data (whole frames or not) read
\* by the standard-library decoder.
StereoVals == {0, 10, 500, -500}

StereoPcmVals == {0, 16384, -16384}

StereoFloatFiles ==
    {f \in {File(TRUE, FALSE, "float32", r, c, d) :
              r \in {1, 2}, c \in {1, 2, 3}, d \in SeqsUpTo(StereoVals, 2 * MaxStereoFrames)} :
        WholeFrames(f)}

StereoPcmFiles ==
    {File(TRUE, FALSE, "pcm16", r, 2, d) :
        r \in {1, 2}, d \in SeqsUpTo(StereoPcmVals, 2 * MaxStereoFrames)}

InitStereo ==
    /\ NoTraining
    /\ \E f \in StereoFloatFiles \cup StereoPcmFiles :
         /\ fs = [p \in Paths |-> IF p = CallPath THEN f ELSE MissingFile]
         /\ env = IF f \in StereoFloatFiles THEN EnvAll ELSE EnvNone
    /\ \E e \in {None, Some(1000)} :
         vargs = VArgs(CallPath, DefaultMinStd, DefaultMinPeak, e, DefaultDurationTolerance)
    /\ vpc = "exists"
    /\ vloc = NoLocals
    /\ vret = NoReturn
    /\ evaluated = <<>>
    /\ argv = Args(<<>>, None, DefaultDurationTolerance, FALSE)
    /\ pc = "library"
    /\ idx = 0
    /\ all_ok = TRUE
    /\ stdout = <<>>
    /\ exit_code = NotReturned
    /\ NoTasks
    /\ NoLibraryCall

SpecStereo == InitStereo /\ [][NextValidate]_vars

\* the two channels of an interleaved 2-channel waveform of whole frames
LeftOf(s) == [k \in 1..(Len(s) \div 2) |-> s[2 * k - 1]]

RightOf(s) == [k \in 1..(Len(s) \div 2) |-> s[2 * k]]

ChannelsIdentical(s) ==
    Len(s) % 2 = 0 /\ \A k \in 1..(Len(s) \div 2) : RightOf(s)[k] = LeftOf(s)[k]

ChannelsInverted(s) ==
    Len(s) % 2 = 0 /\ \A k \in 1..(Len(s) \div 2) : RightOf(s)[k] = -LeftOf(s)[k]

PassedStereo == Returned /\ vret.passed /\ vret.msg.info.ch = 2

StereoWaveform == LoadAudio(TheFile, env).samples

\* C12 as stated: for every 2-channel waveform that passes validation,
\* identical channels put "WARN:channels_identical" in the message, and a
\* right channel that is the negated left channel gives no such tag and a
\* numeric stereo_diff.
C12_StereoTagAlways ==
    PassedStereo =>
      /\ ChannelsIdentical(StereoWaveform)
           => vret.msg.info.stereo.tag = "WARN:channels_identical"
      /\ ChannelsInverted(StereoWaveform)
           => vret.msg.info.stereo.tag = "stereo_diff"

\* C12: for a 2-channel waveform that passes validation and has at least 4
\* samples, identical channels put "WARN:channels_identical" in the message;
\* a right channel that is the negated left channel gives no such tag and
\* stereo_diff = mean |L - R| = 2 * mean |L| over the first 10000 frames,
\* provided that mean is at least 1e-6; with fewer than 4 samples the
\* message carries neither.
C12_StereoTag ==
    PassedStereo =>
      LET s == StereoWaveform
          n == Min(Len(s) \div 2, StereoCheckMax)
          twice == 2 * SeqSum([k \in 1..n |-> Abs(LeftOf(s)[k])])
      IN  /\ (Len(s) >= 4 /\ ChannelsIdentical(s))
               => vret.msg.info.stereo.tag = "WARN:channels_identical"
          /\ (Len(s) >= 4 /\ ChannelsInverted(s) /\ twice * 1000 >= n)
               => vret.msg.info.stereo =
                    [tag |-> "stereo_diff", diff_sum |-> twice, n_check |-> n]
          /\ Len(s) < 4 => vret.msg.info.stereo.tag = ""

C12_Witness ==
    /\ PassedStereo
    /\ Len(StereoWaveform) >= 4
    /\ ChannelsInverted(StereoWaveform)
    /\ vret.msg.info.stereo.tag = "stereo_diff"

\* ---------------------------------------------------------------------
\* The comparison report of a finished run of main: the lines printed after
\* the verdict lines.
CompareLines == SubSeq(stdout, Len(argv.paths) + 1, Len(stdout))

\* the path exists and decodes
Loads(p) == fs[p].exists /\ LoadAudio(fs[p], env).ok

LoadedInputs == {p \in {argv.paths[k] : k \in DOMAIN argv.paths} : Loads(p)}

Compared == pc \in {"return", "done"} /\ argv.compare /\ argv.paths # <<>>

\* C13: compare_files returns a non-empty report if and only if at least
\* two of the (distinct) input paths exist and decode; otherwise it returns
\* the empty list.
C13_ReportIffTwoLoaded ==
    Compared => (CompareLines # <<>> <=> Cardinality(LoadedInputs) >= 2)

\* the positions of the loaded input paths, each path at its first mention
LoadedPositions ==
    SelectSeq([k \in DOMAIN argv.paths |-> k],
              LAMBDA k : /\ Loads(argv.paths[k])
                         /\ \A j \in 1..(k - 1) : argv.paths[j] # argv.paths[k])

\* the (name, statistics) of the loaded input path at position k
EntryOf(k) ==
    [key |-> PathName(argv.paths[k]),
     value |-> FileSummary(LoadAudio(fs[argv.paths[k]], env))]

\* C14: a non-empty report is the header line, then one summary line for
\* every existing, decoded input file in input order, then exactly one
\* metrics line, computed from the first two such files in input order
\* (A the earlier, B the later) however many files follow.
C14_ReportShape ==
    (Compared /\ CompareLines # <<>>) =>
      LET pos == LoadedPositions
          n == Len(pos)
      IN  /\ Len(CompareLines) = n + 2
          /\ CompareLines[1] = [kind |-> "header"]
          /\ \A j \in 1..n :
                CompareLines[1 + j] =
                  [kind |-> "summary", name |-> EntryOf(pos[j]).key,
                   value |-> EntryOf(pos[j]).value]
          /\ CompareLines[n + 2] = CompareMetrics(EntryOf(pos[1]), EntryOf(pos[2]))

\* ---------------------------------------------------------------------
\* Runs of main --compare a.wav b.wav over float files read by soundfile,
\* non-finite samples included.
CompareVals == {0, 100, 200, -200, NaN, PosInf}

CompareInputs ==
    {File(TRUE, FALSE, "float32", 1, 1, d) :
        d \in SeqsUpTo(CompareVals, MaxCompareSamples)}

ComparePair == << <<"a.wav">>, <<"b.wav">> >>

InitCompare ==
    /\ NoTraining
    /\ env = EnvAll
    /\ fs \in [{ComparePair[1], ComparePair[2]} -> CompareInputs]
    /\ argv = Args(ComparePair, None, DefaultDurationTolerance, TRUE)
    /\ pc = "start"
    /\ idx = 0
    /\ all_ok = TRUE
    /\ stdout = <<>>
    /\ exit_code = NotReturned
    /\ NoTasks
    /\ NoLibraryCall
    /\ vpc = "idle"
    /\ vargs = VArgs(<<>>, DefaultMinStd, DefaultMinPeak, None, DefaultDurationTolerance)
    /\ vloc = NoLocals
    /\ vret = NoReturn
    /\ evaluated = <<>>

SpecCompare == InitCompare /\ [][Next]_vars

\* the report of a two-file run: header, line of A, line of B, metrics
PairReported == Compared /\ Len(CompareLines) = 4

LineA == CompareLines[2]

LineB == CompareLines[3]

MetricsLine == CompareLines[4]

\* C15 as stated: each ratio is the statistic of A divided by the statistic
\* of B, and +infinity when that denominator is zero; no division by zero
\* is performed.
C15_RatioOrInfinityAtZero ==
    PairReported =>
      /\ MetricsLine.std_ratio =
           IF LineB.value.stats.var_num = 0 THEN Infinity
           ELSE Quotient(LineA.value.stats, LineB.value.stats)
      /\ MetricsLine.peak_ratio =
           IF LineB.value.peak = 0 THEN Infinity
           ELSE Quotient(LineA.value.peak, LineB.value.peak)

\* C15: each ratio is the statistic of A divided by the statistic of B when
\* the statistic of B is greater than zero, and +infinity otherwise, that is
\* when it is zero or NaN (the peak of a waveform whose first sample is
\* NaN); no division by a zero denominator is performed.
C15_RatioOrInfinity ==
    PairReported =>
      /\ MetricsLine.std_ratio =
           IF LineB.value.stats.var_num = 0 THEN Infinity
           ELSE Quotient(LineA.value.stats, LineB.value.stats)
      /\ MetricsLine.peak_ratio =
           IF LineB.value.peak = 0 \/ LineB.value.peak = NaN THEN Infinity
           ELSE Quotient(LineA.value.peak, LineB.value.peak)
      /\ MetricsLine.std_ratio.kind = "quotient"
           => MetricsLine.std_ratio.den.var_num > 0
      /\ MetricsLine.peak_ratio.kind = "quotient"
           => MetricsLine.peak_ratio.den # 0

\* a zero peak and a zero deviation in B, a positive peak in A
C15_Witness ==
    /\ PairReported
    /\ AllZero(fs[ComparePair[2]].data)
    /\ fs[ComparePair[2]].data # <<>>
    /\ LineA.value.peak > 0
    /\ MetricsLine.peak_ratio = Infinity
    /\ MetricsLine.std_ratio = Infinity

\* the decoded waveform of an input path
Wave(p) == LoadAudio(fs[p], env).samples

\* b = k * a, sample for sample
Scaled(a, b, k) == Len(a) = Len(b) /\ \A j \in DOMAIN a : b[j] = k * a[j]

\* p is the largest magnitude of s
IsPeakOf(p, s) == (\A j \in DOMAIN s : Abs(s[j]) <= p) /\ (\E j \in DOMAIN s : Abs(s[j]) = p)

\* st holds the variance of s: var = (n * sum(x^2) - sum(x)^2) / n^2
IsVarianceOf(st, s) ==
    st.var_num * Len(s) * Len(s) = st.var_den * (Len(s) * SumSq(s) - SeqSum(s) * SeqSum(s))

\* main --compare A B has finished, A and B two loaded files of finite
\* samples with B = k * A and A not constant
ProportionalPair(k) ==
    /\ Compared
    /\ Len(argv.paths) = 2
    /\ argv.paths[1] # argv.paths[2]
    /\ Loads(argv.paths[1]) /\ Loads(argv.paths[2])
    /\ Finite(Wave(argv.paths[1])) /\ Finite(Wave(argv.paths[2]))
    /\ ~AllEqual(Wave(argv.paths[1]))
    /\ Scaled(Wave(argv.paths[1]), Wave(argv.paths[2]), k)

\* C16: for two loaded files of finite samples with B = k * A, k > 0 and A
\* not constant, the report gives std_ratio = 1 / k and peak_ratio = 1 / k
\* (B = 2 * A gives 0.5 and 0.5).
C16_ProportionalRatios ==
    \A k \in {1, 2} :
      ProportionalPair(k)
      => /\ Len(CompareLines) = 4
         /\ MetricsLine.kind = "metrics"
         /\ MetricsLine.peak_ratio.kind = "quotient"
         /\ IsPeakOf(MetricsLine.peak_ratio.num, Wave(argv.paths[1]))
         /\ IsPeakOf(MetricsLine.peak_ratio.den, Wave(argv.paths[2]))
         /\ k * MetricsLine.peak_ratio.num = MetricsLine.peak_ratio.den
         /\ MetricsLine.std_ratio.kind = "quotient"
         /\ IsVarianceOf(MetricsLine.std_ratio.num, Wave(argv.paths[1]))
         /\ IsVarianceOf(MetricsLine.std_ratio.den, Wave(argv.paths[2]))
         \* (std_A / std_B)^2 = 1 / k^2
         /\ k * k * MetricsLine.std_ratio.num.var_num * MetricsLine.std_ratio.den.var_den
              = MetricsLine.std_ratio.den.var_num * MetricsLine.std_ratio.num.var_den

\* ---------------------------------------------------------------------
\* the exit code of the run of main on the same paths without --compare
ExitCodeWithoutCompare ==
    IF \A k \in DOMAIN argv.paths :
          Accepts(fs[argv.paths[k]], env, MainArgs(argv.paths[k]))
    THEN 0 ELSE 1

\* C17: the comparison is diagnostic only. A path that is missing or does
\* not decode is left out of the report without an error line (the report
\* has header, summary and metrics lines only, and every summary line is
\* that of a loaded path), the comparison always completes, and the exit
\* code of a run with --compare is the exit code of the run without it.
C17_CompareIsDiagnostic ==
    /\ (Compared /\ pc = "done") => exit_code = ExitCodeWithoutCompare
    /\ Compared =>
         \A j \in DOMAIN CompareLines :
            /\ CompareLines[j].kind \in {"header", "summary", "metrics"}
            /\ CompareLines[j].kind = "summary"
                 => \E p \in LoadedInputs : PathName(p) = CompareLines[j].name
    /\ (pc = "return" /\ ~argv.compare) => Len(stdout) = Len(argv.paths)

\* a run with --compare over a file that does not decode and two files
\* that do: the report is printed without a line for the first, and the
\* exit code is the 1 of the verdicts
C17_Witness ==
    /\ Compared /\ pc = "done"
    /\ Len(argv.paths) = 3
    /\ fs[argv.paths[1]].exists /\ ~LoadAudio(fs[argv.paths[1]], env).ok
    /\ Len(CompareLines) = 4
    /\ stdout[2].status = "PASS"
    /\ exit_code = 1

\* ---------------------------------------------------------------------
\* One validate_one call per path, run in any interleaving: every call has
\* its own frame (arguments, locals, return value), the running call's
\* frame is in vpc, vargs, vloc, vret, evaluated, and a switch suspends it
\* and resumes another call where it stopped. When all calls have returned,
\* main runs its sequential loop over the same paths.
Frame(preempted) ==
    [vpc |-> vpc, vargs |-> vargs, vloc |-> vloc, vret |-> vret,
     evaluated |-> evaluated, preempted |-> preempted]

NewTask(p, a) ==
    [vpc |-> "exists",
     vargs |-> VArgs(p, DefaultMinStd, DefaultMinPeak,
                     a.expected_duration, a.duration_tolerance),
     vloc |-> NoLocals, vret |-> NoReturn, evaluated |-> <<>>,
     preempted |-> FALSE]

\* the frames once the running call is suspended; preempted records that a
\* call was suspended between two of its steps
Suspended ==
    IF current = 0 THEN tasks
    ELSE [tasks EXCEPT ![current] =
            Frame(tasks[current].preempted \/ vpc \notin {"exists", "returned"})]

\* variant: the path argument is one module-level value that all calls use
TaskSwitch_SharedPath ==
    \E i \in DOMAIN tasks :
       /\ pc = "pool"
       /\ i # current
       /\ tasks[i].vpc # "returned"
       /\ tasks' = Suspended
       /\ current' = i
       /\ vpc' = tasks[i].vpc
       /\ vargs' = IF current = 0 THEN tasks[i].vargs
                   ELSE [tasks[i].vargs EXCEPT !.path = vargs.path]
       /\ vloc' = tasks[i].vloc
       /\ vret' = tasks[i].vret
       /\ evaluated' = tasks[i].evaluated
       /\ UNCHANGED <<worldVars, trainVars, mainVars, callVars>>

TaskSwitch ==
    \E i \in DOMAIN tasks :
       /\ pc = "pool"
       /\ i # current
       /\ tasks[i].vpc # "returned"
       /\ tasks' = Suspended
       /\ current' = i
       /\ vpc' = tasks[i].vpc
       /\ vargs' = tasks[i].vargs
       /\ vloc' = tasks[i].vloc
       /\ vret' = tasks[i].vret
       /\ evaluated' = tasks[i].evaluated
       /\ UNCHANGED <<worldVars, trainVars, mainVars, callVars>>

\* every call has returned: keep the results by input position
TaskJoin ==
    /\ pc = "pool"
    /\ current # 0 => vpc = "returned"
    /\ \A i \in DOMAIN tasks : i # current => tasks[i].vpc = "returned"
    /\ tasks' = Suspended
    /\ current' = 0
    /\ vpc' = "idle"
    /\ vargs' = VArgs(<<>>, DefaultMinStd, DefaultMinPeak, None, DefaultDurationTolerance)
    /\ vloc' = NoLocals
    /\ vret' = NoReturn
    /\ evaluated' = <<>>
    /\ pc' = "start"
    /\ UNCHANGED <<worldVars, trainVars, callVars, argv, idx, all_ok, stdout, exit_code>>

PoolPaths ==
    {<<"missing.wav">>, <<"corrupt.wav">>, <<"nan.wav">>, <<"quiet.wav">>,
     <<"py", "out.wav">>}

InitPool ==
    /\ NoTraining
    /\ env \in {EnvNone, EnvAll}
    /\ fs = Catalogue
    /\ argv \in {Args(ps, e, DefaultDurationTolerance, FALSE) :
                   ps \in SeqsUpTo(PoolPaths, MaxTasks), e \in {None, Some(1000)}}
    /\ tasks = [k \in DOMAIN argv.paths |-> NewTask(argv.paths[k], argv)]
    /\ current = 0
    /\ pc = "pool"
    /\ idx = 0
    /\ all_ok = TRUE
    /\ stdout = <<>>
    /\ exit_code = NotReturned
    /\ vpc = "idle"
    /\ vargs = VArgs(<<>>, DefaultMinStd, DefaultMinPeak, None, DefaultDurationTolerance)
    /\ vloc = NoLocals
    /\ vret = NoReturn
    /\ evaluated = <<>>
    /\ NoLibraryCall

NextPool == TaskSwitch \/ TaskJoin \/ Next

SpecPool == InitPool /\ [][NextPool]_vars

\* the verdict line of a result, as main prints it
LineOf(p, ret) ==
    [kind |-> "verdict", status |-> IF ret.passed THEN "PASS" ELSE "FAIL",
     path |-> p, msg |-> ret.msg]

\* C18: validating the files one call per file in any interleaving, and
\* reporting the results in input order, gives the verdict lines and the
\* exit code of the sequential run of main over the same paths.
C18_InterleavingPreserved ==
    (pc = "done" /\ argv.paths # <<>>) =>
      /\ Len(tasks) = Len(argv.paths)
      /\ stdout = [k \in DOMAIN tasks |-> LineOf(argv.paths[k], tasks[k].vret)]
      /\ exit_code = IF \A k \in DOMAIN tasks : tasks[k].vret.passed THEN 0 ELSE 1

\* two calls, each suspended between two of its steps while the other ran;
\* the first file fails and the second passes
C18_Witness ==
    /\ pc = "done"
    /\ Len(tasks) = 2
    /\ tasks[1].preempted /\ tasks[2].preempted
    /\ ~tasks[1].vret.passed
    /\ tasks[2].vret.passed /\ tasks[2].vret.msg.text = "ok"
    /\ exit_code = 1

\* ---------------------------------------------------------------------
\* Direct calls of _spectral_flatness(samples, channels) on periodic
\* waveforms whose length is around 256 per channel.
Periodic(n, pattern) == [k \in 1..n |-> pattern[((k - 1) % Len(pattern)) + 1]]

FlatnessPatterns == {<<0>>, <<500>>, <<0, 500>>, <<500, -500>>, <<0, 500, 0, -500>>}

FlatnessLengths ==
    (0..MaxFlatnessPad)
    \cup {c * MinFFTLen + d : c \in {1, 2}, d \in (-MaxFlatnessPad)..MaxFlatnessPad}

FlatnessCalls ==
    {[fn |-> "_spectral_flatness", samples |-> Periodic(n, p), channels |-> c] :
        n \in FlatnessLengths, p \in FlatnessPatterns, c \in {1, 2}}

\* mono signals of 65536 equal samples, alone or followed by one more
LongFlatnessCalls ==
    {[fn |-> "_spectral_flatness", samples |-> Periodic(MaxFFTLen, <<v>>) \o t,
      channels |-> 1] :
        v \in {0, 500}, t \in {<<>>, <<-500>>}}

CallSpectralFlatness ==
    /\ call.fn = "_spectral_flatness"
    /\ result = None
    /\ \E v \in SpectralFlatness(call.samples, call.channels, env) :
          result' = Some(v)
    /\ UNCHANGED <<worldVars, trainVars, poolVars, mainVars, validateVars, call>>

InitFlatness ==
    /\ NoTraining
    /\ env \in Envs
    /\ fs = Catalogue
    /\ call \in FlatnessCalls \cup LongFlatnessCalls
    /\ result = None
    /\ NoTasks
    /\ argv = Args(<<>>, None, DefaultDurationTolerance, FALSE)
    /\ pc = "library"
    /\ idx = 0
    /\ all_ok = TRUE
    /\ stdout = <<>>
    /\ exit_code = NotReturned
    /\ vpc = "idle"
    /\ vargs = VArgs(<<>>, DefaultMinStd, DefaultMinPeak, None, DefaultDurationTolerance)
    /\ vloc = NoLocals
    /\ vret = NoReturn
    /\ evaluated = <<>>

SpecFlatness == InitFlatness /\ [][CallSpectralFlatness]_vars

\* channel 0 of the samples of the call
ChannelZero ==
    IF call.channels > 1
    THEN [k \in 1..((Len(call.samples) + call.channels - 1) \div call.channels) |->
            call.samples[(k - 1) * call.channels + 1]]
    ELSE call.samples

\* C20: for a signal of at least 256 samples whose magnitude spectrum is
\* near-silent (the mean of the magnitudes is below 1e-10, as for an
\* all-zero signal), _spectral_flatness returns 0.0.
C20_SilentSpectrumIsZero ==
    (/\ result # None
     /\ env.numpy
     /\ Len(ChannelZero) >= MinFFTLen
     /\ AllZero(ChannelZero))
    => result = Some(0)

\* ---------------------------------------------------------------------
\* Direct calls of _stats(samples) and _channel_stats(samples, channels).
StatsVals == {0, 1, 500, -500}

StatsCalls ==
    {[fn |-> "_stats", samples |-> s, channels |-> 0] :
        s \in SeqsUpTo(StatsVals \cup {NaN, PosInf}, MaxStatsSamples)}

ChannelStatsCalls ==
    {[fn |-> "_channel_stats", samples |-> s, channels |-> c] :
        s \in SeqsUpTo(StatsVals, MaxStatsSamples), c \in 0..3}

CallStats ==
    /\ call.fn = "_stats"
    /\ result = None
    /\ result' = Some(FloatStats(call.samples))
    /\ UNCHANGED <<worldVars, trainVars, poolVars, mainVars, validateVars, call>>

CallChannelStats ==
    /\ call.fn = "_channel_stats"
    /\ result = None
    /\ result' = Some(ChannelStats(call.samples, call.channels))
    /\ UNCHANGED <<worldVars, trainVars, poolVars, mainVars, validateVars, call>>

InitStats ==
    /\ NoTraining
    /\ env = EnvNone
    /\ fs = Catalogue
    /\ call \in StatsCalls \cup ChannelStatsCalls
    /\ result = None
    /\ NoTasks
    /\ argv = Args(<<>>, None, DefaultDurationTolerance, FALSE)
    /\ pc = "library"
    /\ idx = 0
    /\ all_ok = TRUE
    /\ stdout = <<>>
    /\ exit_code = NotReturned
    /\ vpc = "idle"
    /\ vargs = VArgs(<<>>, DefaultMinStd, DefaultMinPeak, None, DefaultDurationTolerance)
    /\ vloc = NoLocals
    /\ vret = NoReturn
    /\ evaluated = <<>>

NextStats == CallStats \/ CallChannelStats

SpecStats == InitStats /\ [][NextStats]_vars

\* x == y on floats: NaN equals nothing
FloatEq(x, y) == x # NaN /\ y # NaN /\ x = y

\* the returned mean equals the sample x exactly
MeanIs(st, x) ==
    IF IsNonFinite(x) \/ IsNonFinite(st.mean_num)
    THEN FloatEq(st.mean_num, x)
    ELSE st.mean_num = x * st.mean_den

StatsReturned == call.fn = "_stats" /\ result # None

\* C21: for every sample sequence, if _stats returns std == 0 then every
\* sample equals the returned mean exactly; and every constant sequence, of
\* any length, yields std == 0 and a mean equal to the constant.
C21_ZeroStdIffConstant ==
    StatsReturned =>
      LET st == result[1]
          s == call.samples
      IN  /\ st.var_num = 0 => \A k \in DOMAIN s : MeanIs(st, s[k])
          /\ (s # <<>> /\ \A k \in DOMAIN s : FloatEq(s[k], s[1]))
               => (st.var_num = 0 /\ MeanIs(st, s[1]))

\* ---------------------------------------------------------------------
\* the statistics of the empty sequence: mean 0.0 and std 0.0
EmptyStats == [mean_num |-> 0, mean_den |-> 1, var_num |-> 0, var_den |-> 1]

\* C22: on an empty sample sequence _stats returns (0.0, 0.0) and the peak
\* used by the comparison is 0: a loaded file without samples gets the
\* summary line (0.0, 0.0, 0) and the report is produced, never an error.
C22_EmptyIsDefined ==
    (Compared /\ pc = "done") =>
      /\ Len(CompareLines) = 4
      /\ Wave(ComparePair[1]) = <<>>
           => (LineA.value.stats = EmptyStats /\ LineA.value.peak = 0)
      /\ Wave(ComparePair[2]) = <<>>
           => /\ LineB.value.stats = EmptyStats /\ LineB.value.peak = 0
              /\ MetricsLine.std_ratio = Infinity
              /\ MetricsLine.peak_ratio = Infinity

\* an empty file compared with a file of two samples
C22_Witness ==
    /\ Compared /\ pc = "done"
    /\ Wave(ComparePair[1]) = <<>>
    /\ Len(Wave(ComparePair[2])) = 2
    /\ LineA.value.stats = EmptyStats
    /\ LineA.value.peak = 0
    /\ MetricsLine.kind = "metrics"

\* ---------------------------------------------------------------------
\* Direct calls of load_audio(path) on WAV files of whole frames of every
\* sample format, under every set of installed modules.
DecodeVals16 == {-32768, -1, 0, 16384, 32767}

DecodeVals32 == {0, 3277, 1073741824, -1073741824}

DecodeVals8 == {0, 64, 192}

DecodeFiles ==
    {f \in {File(TRUE, FALSE, "pcm16", 1, c, d) :
              c \in {1, 2}, d \in SeqsUpTo(DecodeVals16, MaxDecodeSamples)}
           \cup {File(TRUE, FALSE, "pcm32", 1, c, d) :
              c \in {1, 2}, d \in SeqsUpTo(DecodeVals32, MaxDecodeSamples)}
           \cup {File(TRUE, FALSE, "pcm8", 1, c, d) :
              c \in {1, 2}, d \in SeqsUpTo(DecodeVals8, MaxDecodeSamples)}
           \cup {File(TRUE, FALSE, "float32", 1, c, d) :
              c \in {1, 2}, d \in SeqsUpTo({0, 500}, MaxDecodeSamples)} :
        WholeFrames(f)}
    \cup {CorruptFile}

CallLoadAudio ==
    /\ call.fn = "load_audio"
    /\ result = None
    /\ result' = Some(LoadAudio(fs[call.path], env))
    /\ UNCHANGED <<worldVars, trainVars, poolVars, mainVars, validateVars, call>>

InitDecode ==
    /\ NoTraining
    /\ env \in Envs
    /\ \E f \in DecodeFiles :
          fs = [p \in Paths |-> IF p = CallPath THEN f ELSE MissingFile]
    /\ call = [fn |-> "load_audio", path |-> CallPath]
    /\ result = None
    /\ NoTasks
    /\ argv = Args(<<>>, None, DefaultDurationTolerance, FALSE)
    /\ pc = "library"
    /\ idx = 0
    /\ all_ok = TRUE
    /\ stdout = <<>>
    /\ exit_code = NotReturned
    /\ vpc = "idle"
    /\ vargs = VArgs(<<>>, DefaultMinStd, DefaultMinPeak, None, DefaultDurationTolerance)
    /\ vloc = NoLocals
    /\ vret = NoReturn
    /\ evaluated = <<>>

SpecDecode == InitDecode /\ [][CallLoadAudio]_vars

LoadReturned == call.fn = "load_audio" /\ result # None

LoadedFile == fs[CallPath]

\* d is s / 32768 at the resolution of the model: 1000 * s / 32768 rounded
\* down to a whole number of thousandths
IsNormalized(d, s) == d * 32768 <= 1000 * s /\ 1000 * s < (d + 1) * 32768

\* C23: every 16-bit PCM sample s is decoded to s / 32768: -32768 becomes
\* exactly -1.0, 32767 a value strictly below 1.0 and every decoded sample
\* lies in [-1.0, 1.0), in every backend.
C23_Pcm16Normalized ==
    (LoadReturned /\ LoadedFile.format = "pcm16") =>
      /\ result[1].ok
      /\ Len(result[1].samples) = Len(LoadedFile.data)
      /\ \A k \in DOMAIN LoadedFile.data :
            LET d == result[1].samples[k]
                s == LoadedFile.data[k]
            IN  /\ IsNormalized(d, s)
                /\ -1000 <= d /\ d < 1000
                /\ s = -32768 => d = -1000

\* the two extreme samples, decoded by the standard-library backend
C23_Witness ==
    /\ LoadReturned
    /\ env = EnvNone
    /\ LoadedFile.format = "pcm16"
    /\ LoadedFile.data = <<-32768, 32767>>
    /\ result[1].samples = <<-1000, 999>>

\* the standard-library decoder was reached and returned a waveform
StdlibAccepted ==
    /\ LoadReturned
    /\ result[1].ok
    /\ result[1].tried[Len(result[1].tried)] = "stdlib"

HeaderFrames(f) == Len(f.data) \div f.channels

\* C29: a waveform returned by the standard-library decoder has frame count
\* times channel count samples, each one stored sample divided by 32768,
\* whatever the sample width of the file.
C29_StdlibFramesTimesChannels ==
    StdlibAccepted =>
      /\ Len(result[1].samples) = HeaderFrames(LoadedFile) * LoadedFile.channels
      /\ \A k \in DOMAIN result[1].samples :
            /\ k \in DOMAIN LoadedFile.data
            /\ IsNormalized(result[1].samples[k], LoadedFile.data[k])

\* ------------------------------------------------------------------ C24
SilentVerdict == ~vret.passed /\ vret.msg.text = "waveform effectively silent"

\* C24: for a finite waveform with std > min_std the verdict is "waveform
\* effectively silent" exactly when peak < min_peak (a peak equal to
\* min_peak passes the check), and that verdict is only given to waveforms
\* with std > min_std.
C24_SilentIffPeakBelow ==
    Returned =>
      /\ (FiniteWaveform /\ StdAbove(LoadAudio(TheFile, env).samples, vargs.min_std)) =>
            (SilentVerdict <=> ~PeakAtLeast(LoadAudio(TheFile, env).samples, vargs.min_peak))
      /\ SilentVerdict =>
            (FiniteWaveform /\ StdAbove(LoadAudio(TheFile, env).samples, vargs.min_std))

\* a peak of exactly min_peak with std > min_std is not called silent
C24_Witness ==
    /\ Returned /\ FiniteWaveform
    /\ StdAbove(LoadAudio(TheFile, env).samples, vargs.min_std)
    /\ PeakAtLeast(LoadAudio(TheFile, env).samples, vargs.min_peak)
    /\ ~PeakAtLeast(LoadAudio(TheFile, env).samples, vargs.min_peak + 1)
    /\ ~SilentVerdict

RECURSIVE ChannelOf(_, _, _, _)
ChannelOf(s, k, c, channels) ==
    IF k > Len(s) THEN <<>>
    ELSE (IF (k - 1) % channels = c THEN <<s[k]>> ELSE <<>>)
         \o ChannelOf(s, k + 1, c, channels)

ChannelStatsReturned == call.fn = "_channel_stats" /\ result # None

\* C27: for channels <= 1 the result is the single entry _stats(samples);
\* for channels > 1 it has `channels` entries, entry c being _stats of the
\* samples at positions c, c + channels, c + 2 * channels, ..., so that
\* every sample is counted in exactly one entry.
C27_ChannelPartition ==
    ChannelStatsReturned =>
      LET s == call.samples
          ch == call.channels
          r == result[1]
      IN  IF ch <= 1
          THEN r = <<Stats(s)>>
          ELSE /\ Len(r) = ch
               /\ \A c \in 0..(ch - 1) : r[c + 1] = Stats(ChannelOf(s, 1, c, ch))
               /\ SeqSum([c \in 1..ch |-> Len(ChannelOf(s, 1, c - 1, ch))]) = Len(s)

\* three samples in two channels: (0.5, -0.5) and (0.001)
C27_Witness ==
    /\ ChannelStatsReturned
    /\ call.channels = 2
    /\ call.samples = <<500, 1, -500>>
    /\ result[1][1] = Stats(<<500, -500>>)
    /\ result[1][2] = Stats(<<1>>)

\* ---------------------------------------------------------------------
\* Direct calls of validate_one on 16-bit files of about 256 samples, read
\* by the standard-library decoder with and without numpy installed.
\* stored 16-bit values: they decode to 0, 0.010 and -0.010
SpectralPcmVals == <<0, 328, -327>>

SpectralPatterns ==
    {<<SpectralPcmVals[1]>>,
     <<SpectralPcmVals[2]>>,
     <<SpectralPcmVals[2], SpectralPcmVals[3]>>,
     <<SpectralPcmVals[2], SpectralPcmVals[1]>>,
     <<SpectralPcmVals[2], SpectralPcmVals[2], SpectralPcmVals[3], SpectralPcmVals[3]>>}

SpectralLengths == {MinFFTLen + d : d \in (-MaxFlatnessPad)..MaxFlatnessPad}

SpectralFiles ==
    {File(TRUE, FALSE, "pcm16", MinFFTLen, c, Periodic(n, p)) :
        c \in {1, 2}, n \in SpectralLengths, p \in SpectralPatterns}

InitSpectral ==
    /\ NoTraining
    /\ env \in {e \in Envs : ~e.soundfile /\ ~e.scipy}
    /\ \E f \in SpectralFiles :
          fs = [p \in Paths |-> IF p = CallPath THEN f ELSE MissingFile]
    /\ \E e \in {None, Some(1000)} :
         vargs = VArgs(CallPath, DefaultMinStd, DefaultMinPeak, e, DefaultDurationTolerance)
    /\ vpc = "exists"
    /\ vloc = NoLocals
    /\ vret = NoReturn
    /\ evaluated = <<>>
    /\ argv = Args(<<>>, None, DefaultDurationTolerance, FALSE)
    /\ pc = "library"
    /\ idx = 0
    /\ all_ok = TRUE
    /\ stdout = <<>>
    /\ exit_code = NotReturned
    /\ NoTasks
    /\ NoLibraryCall

SpecSpectral == InitSpectral /\ [][NextValidate]_vars

\* the environment with the FFT facility taken away
WithoutNumpy(e) == [e EXCEPT !.numpy = FALSE]

\* the samples of channel 0 of the waveform of the file
FirstChannel(f, e) ==
    LET r == LoadAudio(f, e)
    IN  IF r.channels > 1
        THEN [k \in 1..((Len(r.samples) + r.channels - 1) \div r.channels) |->
                r.samples[(k - 1) * r.channels + 1]]
        ELSE r.samples

\* C26: the verdict of validate_one is the verdict of its checks with the
\* FFT facility taken away, whatever the analyzer returns; the message of
\* a passed file lacks the spectral_flatness field exactly when the
\* analyzer returned the sentinel (no numpy, or fewer than 256 samples in
\* channel 0), and the call returns in either case.
C26_FlatnessIsInformational ==
    /\ Returned =>
         /\ vret.passed <=> Accepts(TheFile, WithoutNumpy(env), vargs)
         /\ vret.passed =>
              (vret.msg.info.spectral = <<>>
                 <=> (~env.numpy \/ Len(FirstChannel(TheFile, env)) < 256))
    /\ (evaluated # <<>> /\ evaluated[Len(evaluated)] = "report") =>
         (Returned /\ vret.passed)

\* a passed file for which the analyzer returned 0.0
C26_Witness ==
    /\ Returned /\ vret.passed
    /\ env.numpy
    /\ Len(FirstChannel(TheFile, env)) >= 256
    /\ vret.msg.info.spectral = <<0>>

\* ------------------------------------------------------------------ C28
FlatnessReturned == call.fn = "_spectral_flatness" /\ result # None

\* the first 65536 samples of channel 0
ChannelZeroWindow == SubSeq(ChannelZero, 1, Min(Len(ChannelZero), 65536))

\* C28: the spectral-flatness estimate depends only on the first 65536
\* samples of channel 0: the result of a call is a result of the call on
\* those samples alone, whatever the other channels and the later samples
\* contain.
C28_ChannelZeroWindowOnly ==
    FlatnessReturned =>
        result[1] \in SpectralFlatness(ChannelZeroWindow, 1, env)

\* 65536 equal samples followed by a different one: the result is that of
\* the constant signal
C28_Witness ==
    /\ FlatnessReturned
    /\ env.numpy
    /\ Len(ChannelZero) > 65536
    /\ ~IsConstant(ChannelZero)
    /\ IsConstant(ChannelZeroWindow)
    /\ result[1] = 1000

\* =====================================================================
\* training_run_wiring.py: the training stream wrappers
\* ---------------------------------------------------------------------
\* variant: a new dict whatever was passed
NormalizeTrainingState_AlwaysFresh(t) == "fresh"

\* _normalize_training_state: the identity of the dict the wrapper works
\* with: the caller's own dict, or a new one
NormalizeTrainingState(t) == IF t.kind = "dict" THEN t.ref ELSE "fresh"

\* {"is_training": False, "should_stop": False}
FreshState == TrainingState(FALSE, FALSE)

\* f"<cross mark> Error: {str(exc)}", str(exc), None, state (the cross
\* mark is written as X)
ErrorTuple(msg, state) ==
    [progress |-> <<"X Error: ", msg>>, log |-> <<msg>>, plot |-> None, state |-> state]

UnpackMessage == "not enough values to unpack (expected 4, got 3)"

\* What the underlying stream yields. An item names the dict it carries:
\* the state it was given ("arg") or a dict of its own; producing an item
\* may set is_training in the state it was given. An item of 3 values
\* cannot be unpacked by the for statement.
StreamItems ==
    {[arity |-> 4, progress |-> <<p>>, log |-> <<"loss">>, plot |-> f,
      state |-> s, starts |-> m] :
        p \in {"epoch 1", "epoch 2"}, f \in {None, Some("figure")},
        s \in {"arg", "other"}, m \in BOOLEAN}
    \cup {[arity |-> 3, progress |-> <<"epoch 1">>, log |-> <<"loss">>, plot |-> None,
           state |-> "arg", starts |-> FALSE]}

\* how the stream ends after its items: it returns, it raises an
\* Exception, or it raises a BaseException that is not an Exception
StreamEndings ==
    {[ending |-> "return", msg |-> ""],
     [ending |-> "RuntimeError", msg |-> "CUDA out of memory"],
     [ending |-> "KeyboardInterrupt", msg |-> ""]}

IsException(ending) == ending = "RuntimeError"

Streams ==
    {[items |-> i, ending |-> e.ending, msg |-> e.msg] :
        i \in SeqsUpTo(StreamItems, MaxStreamItems), e \in StreamEndings}

TrainingStates ==
    {[kind |-> "dict", ref |-> "caller"], [kind |-> "None"], [kind |-> "str"]}

\* the generator is resumed: for the first time, or at the yield of the loop
Resumable == wpc \in {"created", "suspended"}

\* state = _normalize_training_state(ts), on the first resumption
StateNow == IF wpc = "created" THEN NormalizeTrainingState(ts) ELSE wstate

HeapNow ==
    IF wpc = "created" /\ StateNow = "fresh"
    THEN [heap EXCEPT !["fresh"] = FreshState]
    ELSE heap

\* the stream hands over its next item and the wrapper yields it
WrapperForward ==
    /\ Resumable
    /\ taken < Len(stream.items)
    /\ stream.items[taken + 1].arity = 4
    /\ LET item == stream.items[taken + 1]
       IN  /\ yielded' = Append(yielded,
                [progress |-> item.progress, log |-> item.log, plot |-> item.plot,
                 state |-> IF item.state = "arg" THEN StateNow ELSE item.state])
           /\ heap' = IF item.starts
                      THEN [HeapNow EXCEPT ![StateNow].is_training = TRUE]
                      ELSE HeapNow
    /\ taken' = taken + 1
    /\ wstate' = StateNow
    /\ wpc' = "suspended"
    /\ UNCHANGED <<worldVars, poolVars, callVars, mainVars, validateVars,
                   wrapper, ts, stream, logged>>

\* the next item does not unpack into four values: ValueError, inside try
WrapperUnpackError ==
    /\ Resumable
    /\ taken < Len(stream.items)
    /\ stream.items[taken + 1].arity # 4
    /\ logged' = Append(logged, wrapper)
    /\ yielded' = Append(yielded, ErrorTuple(UnpackMessage, StateNow))
    /\ heap' = HeapNow
    /\ taken' = taken + 1
    /\ wstate' = StateNow
    /\ wpc' = "failed"
    /\ UNCHANGED <<worldVars, poolVars, callVars, mainVars, validateVars,
                   wrapper, ts, stream>>

\* variant: the error tuple carries a new dict
WrapperCatch_FreshState ==
    /\ Resumable
    /\ taken = Len(stream.items)
    /\ IsException(stream.ending)
    /\ logged' = Append(logged, wrapper)
    /\ yielded' = Append(yielded, ErrorTuple(stream.msg, "fresh"))
    /\ heap' = [HeapNow EXCEPT !["fresh"] = FreshState]
    /\ wstate' = StateNow
    /\ wpc' = "failed"
    /\ UNCHANGED <<worldVars, poolVars, callVars, mainVars, validateVars,
                   wrapper, ts, stream, taken>>

\* except Exception as exc: the stream raised an Exception
WrapperCatch ==
    /\ Resumable
    /\ taken = Len(stream.items)
    /\ IsException(stream.ending)
    /\ logged' = Append(logged, wrapper)
    /\ yielded' = Append(yielded, ErrorTuple(stream.msg, StateNow))
    /\ heap' = HeapNow
    /\ wstate' = StateNow
    /\ wpc' = "failed"
    /\ UNCHANGED <<worldVars, poolVars, callVars, mainVars, validateVars,
                   wrapper, ts, stream, taken>>

\* the stream raised something that is not an Exception: no handler
WrapperPropagate ==
    /\ Resumable
    /\ taken = Len(stream.items)
    /\ stream.ending # "return" /\ ~IsException(stream.ending)
    /\ heap' = HeapNow
    /\ wstate' = StateNow
    /\ wpc' = "raised"
    /\ UNCHANGED <<worldVars, poolVars, callVars, mainVars, validateVars,
                   wrapper, ts, stream, taken, yielded, logged>>

\* the stream is exhausted: the loop and the generator end
WrapperExhausted ==
    /\ Resumable
    /\ taken = Len(stream.items)
    /\ stream.ending = "return"
    /\ heap' = HeapNow
    /\ wstate' = StateNow
    /\ wpc' = "done"
    /\ UNCHANGED <<worldVars, poolVars, callVars, mainVars, validateVars,
                   wrapper, ts, stream, taken, yielded, logged>>

\* resumed after the error tuple: the generator ends
WrapperEnd ==
    /\ wpc = "failed"
    /\ wpc' = "done"
    /\ UNCHANGED <<worldVars, poolVars, callVars, mainVars, validateVars,
                   wrapper, ts, heap, stream, taken, wstate, yielded, logged>>

InitTraining ==
    /\ wrapper \in {"training_wrapper", "lokr_training_wrapper"}
    /\ ts \in TrainingStates
    /\ \E t \in BOOLEAN, s \in BOOLEAN :
          heap = [i \in HeapIds |->
                    IF i = "fresh" THEN NoObject
                    ELSE IF i = "other" THEN TrainingState(TRUE, FALSE)
                    ELSE IF ts.kind = "dict" THEN TrainingState(t, s)
                    ELSE NoObject]
    /\ stream \in Streams
    /\ taken = 0
    /\ wpc = "created"
    /\ wstate = ""
    /\ yielded = <<>>
    /\ logged = <<>>
    /\ env = EnvNone
    /\ fs = Catalogue
    /\ NoTasks
    /\ NoLibraryCall
    /\ argv = Args(<<>>, None, DefaultDurationTolerance, FALSE)
    /\ pc = "library"
    /\ idx = 0
    /\ all_ok = TRUE
    /\ stdout = <<>>
    /\ exit_code = NotReturned
    /\ vpc = "idle"
    /\ vargs = VArgs(<<>>, DefaultMinStd, DefaultMinPeak, None, DefaultDurationTolerance)
    /\ vloc = NoLocals
    /\ vret = NoReturn
    /\ evaluated = <<>>

NextTraining ==
    \/ WrapperForward \/ WrapperUnpackError \/ WrapperCatch
    \/ WrapperPropagate \/ WrapperExhausted \/ WrapperEnd

SpecTraining == InitTraining /\ [][NextTraining]_vars

\* ------------------------------------------------------------------ C30
\* the dict the wrapper is to work with
ExpectedState == IF ts.kind = "dict" THEN "caller" ELSE "fresh"

\* item k of the stream as the caller of the wrapper is to see it
Forwarded(k) ==
    [progress |-> stream.items[k].progress, log |-> stream.items[k].log,
     plot |-> stream.items[k].plot,
     state |-> IF stream.items[k].state = "arg" THEN ExpectedState
               ELSE stream.items[k].state]

WellFormed == \A k \in DOMAIN stream.items : stream.items[k].arity = 4

AllForwarded == [k \in DOMAIN stream.items |-> Forwarded(k)]

ErrorReport ==
    [progress |-> <<"X Error: ", stream.msg>>, log |-> <<stream.msg>>,
     plot |-> None, state |-> ExpectedState]

IsPrefix(a, b) == Len(a) <= Len(b) /\ a = SubSeq(b, 1, Len(a))

WrapperOver == wpc \in {"done", "raised"}

\* no item taken so far has changed the state it was given
Untouched == \A k \in 1..taken : ~stream.items[k].starts

====
